---- MODULE Spec2Model ----
(***************************************************************************)
(* Winner determination and learning engine (src/unnamed/part_004).       *)
(*                                                                         *)
(* Numbers.  The engine computes with IEEE doubles.  Two number domains    *)
(* stand for them here:                                                    *)
(*   - metric values and improvements are exact extended rationals: a      *)
(*     record [k, n, d] with k = "fin" (n/d in lowest terms, d > 0),       *)
(*     k = "inf" (n = 1 for +Infinity, n = -1 for -Infinity) or k = "nan"; *)
(*   - the significance test (standard error, z-score, p-value) is         *)
(*     computed in fixed point, an integer counting units of 1/S with      *)
(*     S = 10^7, the number of decimals of the p-value's coefficients;     *)
(*     NaN is the integer NaN, which no computation yields.                *)
(***************************************************************************)
EXTENDS Integers, Sequences, FiniteSets, TLC

VARIABLES
  variants,         \* the VariantResult[] handed to the engine
  primaryMetric,    \* the MetricType argument
  confidenceLevel,  \* determineWinner's confidenceLevel argument (fixed point)
  minSampleSize,    \* determineWinner's minSampleSize argument
  pc,               \* which entry point has been called
  winner,           \* the WinnerDecision returned by determineWinner
  testResult,       \* the outcome of createTestResult
  suggestionInput,  \* the variants argument of generateNextRunSuggestion
  suggestion,       \* the NextRunSuggestion | null it returned
  numeric,          \* a call of calculateRequiredSampleSize or calculatePValue
  run,              \* a run's state, the last executeTransition call and query
  stop,             \* an evaluation of the stop conditions of a run
  approval,         \* an approve or reject call of an approval request
  lp                \* an LP variant's status and version, and the last call on it

vars == <<variants, primaryMetric, confidenceLevel, minSampleSize, pc, winner,
          testResult, suggestionInput, suggestion, numeric, run, stop, approval, lp>>

\* the variables of the winner determination engine
engineVars == <<variants, primaryMetric, confidenceLevel, minSampleSize, pc, winner,
                testResult, suggestionInput, suggestion>>

\* the variables of the other components
domainVars == <<numeric, run, stop, approval, lp>>

----------------------------------------------------------------------------
(* Fixed-point arithmetic, units of 1/S, within 32-bit integers.           *)

S == 10^7
Limb == 10^4
NaN == 0 - 2^30

Abs(x) == IF x < 0 THEN 0 - x ELSE x

\* floor(a*b/S) for a, b >= 0, by limbs of 10^4 so that no product overflows
MulU(a, b) ==
  LET a1 == a \div Limb
      a0 == a % Limb
      b1 == b \div Limb
      b0 == b % Limb
  IN  a1 * b1 * 10 + ((a1 * b0 + a0 * b1 + ((a0 * b0) \div Limb)) \div 1000)

\* a*b for signed fixed-point numbers, NaN absorbing
MulFP(a, b) ==
  IF a = NaN \/ b = NaN THEN NaN
  ELSE IF (a >= 0) = (b >= 0) THEN MulU(Abs(a), Abs(b))
  ELSE 0 - MulU(Abs(a), Abs(b))

RECURSIVE DivDigits(_, _, _, _)
DivDigits(q, r, b, k) ==
  IF k = 0 THEN q
  ELSE DivDigits(q * 10 + ((r * 10) \div b), (r * 10) % b, b, k - 1)

\* floor(a*S/b) for a >= 0, b > 0: the quotient a/b as a fixed-point number
DivU(a, b) == DivDigits(a \div b, a % b, b, 7)

\* a*a <= v*S, decided from the quotient and the remainder of a*a by S
SquareAtMost(a, v) ==
  LET q == MulU(a, a)
      a1 == a \div Limb
      a0 == a % Limb
      rem == (((2 * a1 * a0) % 1000) * Limb + a0 * a0) % S
  IN  q < v \/ (q = v /\ rem = 0)

RECURSIVE SqrtSearch(_, _, _)
SqrtSearch(v, lo, hi) ==
  IF lo >= hi THEN lo
  ELSE LET mid == (lo + hi + 1) \div 2
       IN  IF SquareAtMost(mid, v) THEN SqrtSearch(v, mid, hi)
           ELSE SqrtSearch(v, lo, mid - 1)

\* Math.sqrt, rounded down: NaN for a negative argument
SqrtFP(v) ==
  IF v = NaN \/ v < 0 THEN NaN
  ELSE SqrtSearch(v, 0, IF v <= S THEN S ELSE v)

RECURSIVE ExpSeries(_, _, _, _)
ExpSeries(f, term, sum, i) ==
  IF i > 14 THEN sum
  ELSE LET t == MulU(term, f) \div i
       IN  ExpSeries(f, t, IF i % 2 = 1 THEN sum - t ELSE sum + t, i + 1)

\* exp(-f) for 0 <= f <= S, by its Taylor series
ExpFrac(f) == ExpSeries(f, S, S, 1)

ExpMinusOne == ExpFrac(S)

RECURSIVE ExpScale(_, _)
ExpScale(r, k) == IF k = 0 THEN r ELSE ExpScale(MulU(r, ExpMinusOne), k - 1)

\* Math.exp(-x) for x >= 0; below 10^-7 (x >= 17) the fixed-point value is 0
ExpNeg(x) ==
  IF x \div S >= 17 THEN 0 ELSE ExpScale(ExpFrac(x % S), x \div S)

----------------------------------------------------------------------------
(* Extended rationals: the values of metrics and improvements.             *)

RECURSIVE GCD(_, _)
GCD(a, b) == IF b = 0 THEN a ELSE GCD(b, a % b)

\* n/d in lowest terms with a positive denominator (d # 0)
Fin(n, d) ==
  LET g == GCD(Abs(n), Abs(d))
      sg == IF d < 0 THEN 0 - 1 ELSE 1
  IN  [k |-> "fin", n |-> (sg * n) \div g, d |-> (sg * d) \div g]

Zero == [k |-> "fin", n |-> 0, d |-> 1]
Infinity == [k |-> "inf", n |-> 1, d |-> 0]
NegInfinity == [k |-> "inf", n |-> 0 - 1, d |-> 0]
NaNValue == [k |-> "nan", n |-> 0, d |-> 0]
\* an optional number that is absent (undefined)
Undefined == [k |-> "undef", n |-> 0, d |-> 0]

Sign(x) == IF x.n > 0 THEN 1 ELSE IF x.n < 0 THEN 0 - 1 ELSE 0

\* a - b
NumSub(a, b) ==
  IF a.k = "nan" \/ b.k = "nan" THEN NaNValue
  ELSE IF a.k = "inf" /\ b.k = "inf" THEN (IF a.n = b.n THEN NaNValue ELSE a)
  ELSE IF a.k = "inf" THEN a
  ELSE IF b.k = "inf" THEN (IF b.n > 0 THEN NegInfinity ELSE Infinity)
  ELSE Fin(a.n * b.d - b.n * a.d, a.d * b.d)

\* a / b, for b >= 0 (a zero divisor is +0)
NumDiv(a, b) ==
  IF a.k = "nan" \/ b.k = "nan" THEN NaNValue
  ELSE IF a.k = "inf" /\ b.k = "inf" THEN NaNValue
  ELSE IF a.k = "inf" THEN a
  ELSE IF b.k = "inf" THEN Zero
  ELSE IF b.n = 0
       THEN (IF a.n = 0 THEN NaNValue
             ELSE IF a.n > 0 THEN Infinity ELSE NegInfinity)
  ELSE Fin(a.n * b.d, a.d * b.n)

\* a * c for an integer c > 0
NumScale(a, c) == IF a.k = "fin" THEN Fin(a.n * c, a.d) ELSE a

\* a > b, false when either is NaN
NumGt(a, b) ==
  IF a.k = "nan" \/ b.k = "nan" THEN FALSE
  ELSE IF a.k = "inf" THEN a.n > 0 /\ a # b
  ELSE IF b.k = "inf" THEN b.n < 0
  ELSE a.n * b.d > b.n * a.d

NumLt(a, b) == NumGt(b, a)

\* a non-negative finite rational as a fixed-point number (rounded down)
ToFP(a) == DivU(a.n, a.d)

----------------------------------------------------------------------------
(* Metrics.                                                                *)

MetricType == {"cvr", "ctr", "cpa", "roas", "revenue", "cpc"}

calculateCVR(conversions, clicks) ==
  IF clicks = 0 THEN Zero ELSE Fin(conversions * 100, clicks)

calculateCTR(clicks, impressions) ==
  IF impressions = 0 THEN Zero ELSE Fin(clicks * 100, impressions)

\* a faulty calculateCPA: 0 for no conversions, as the other metrics do
calculateCPAZero(spend, conversions) ==
  IF conversions = 0 THEN Zero ELSE Fin(spend, conversions)

calculateCPA(spend, conversions) ==
  IF conversions = 0 THEN Infinity ELSE Fin(spend, conversions)

calculateROAS(revenue, spend) ==
  IF spend = 0 THEN Zero ELSE Fin(revenue, spend)

calculateCPC(spend, clicks) ==
  IF clicks = 0 THEN Zero ELSE Fin(spend, clicks)

calculateCPM(spend, impressions) ==
  IF impressions = 0 THEN Zero ELSE Fin(spend * 1000, impressions)

calculateVariantMetrics(result) ==
  [cvr |-> calculateCVR(result.conversions, result.clicks),
   ctr |-> calculateCTR(result.clicks, result.impressions),
   cpa |-> calculateCPA(result.spend, result.conversions),
   roas |-> calculateROAS(result.revenue, result.spend),
   cpc |-> calculateCPC(result.spend, result.clicks),
   cpm |-> calculateCPM(result.spend, result.impressions)]

\* switch (metric) over the metrics just calculated
MetricOf(metrics, result, metric) ==
  CASE metric = "cvr" -> metrics.cvr
    [] metric = "ctr" -> metrics.ctr
    [] metric = "cpa" -> metrics.cpa
    [] metric = "roas" -> metrics.roas
    [] metric = "revenue" -> Fin(result.revenue, 1)
    [] metric = "cpc" -> metrics.cpc
    [] OTHER -> metrics.cvr

\* the value read from the metrics field the variant came with
getMetricValueStored(result, metric) == MetricOf(result.metrics, result, metric)

getMetricValue(result, metric) ==
  MetricOf(calculateVariantMetrics(result), result, metric)

----------------------------------------------------------------------------
(* Significance test.                                                      *)

PT == 2316419
PD == 3989423
B1 == 3193815
B2 == -3565638
B3 == 17814780
B4 == -18212560
B5 == 13302740
CriticalZ == 19600000
DefaultConfidenceLevel == 9500000
DefaultMinSampleSize == 100

\* rate is a percentage (an extended rational), sampleSize a count
calculateStandardError(rate, sampleSize) ==
  IF sampleSize = 0 THEN 0
  ELSE LET p == ToFP(Fin(rate.n, rate.d * 100))
       IN  SqrtFP(MulFP(p, S - p) \div sampleSize)

\* Math.sqrt(seA * seA + seB * seB)
RootSumSquares(seA, seB) ==
  SqrtFP(IF seA = NaN \/ seB = NaN THEN NaN ELSE MulFP(seA, seA) + MulFP(seB, seB))

\* the quotient without the test for seDiff === 0: a division by 0 gives NaN
\* for 0 / 0 and an infinite value (beyond every tabulated z) otherwise
ZScoreOfUnguarded(diff, seDiff) ==
  IF seDiff = NaN THEN NaN
  ELSE IF seDiff = 0 THEN (IF diff.n = 0 THEN NaN
                           ELSE (IF diff.n < 0 THEN -1 ELSE 1) * 8 * S)
  ELSE (IF diff.n < 0 THEN -1 ELSE 1)
         * DivU(ToFP(Fin(Abs(diff.n), diff.d * 100)), seDiff)

\* diff / 100 / seDiff, diff a difference of percentages
ZScoreOf(diff, seDiff) ==
  IF seDiff = NaN THEN NaN
  ELSE IF seDiff = 0 THEN 0
  ELSE (IF diff.n < 0 THEN -1 ELSE 1)
         * DivU(ToFP(Fin(Abs(diff.n), diff.d * 100)), seDiff)

calculateZScore(rateA, rateB, seA, seB) ==
  ZScoreOf(NumSub(rateA, rateB), RootSumSquares(seA, seB))

\* absZ*absZ/2; from absZ = 8 on the exponential is 0 in fixed point
HalfSquare(absZ) == IF absZ >= 8 * S THEN 32 * S ELSE MulU(absZ, absZ) \div 2

\* the same product without the two-tailed factor
OneTailed(t, d) ==
  MulFP(MulFP(d, t),
        B1 + MulFP(t, B2 + MulFP(t, B3 + MulFP(t, B4 + MulFP(t, B5)))))

\* 2 * p for p = d * t * (polynomial in t)
TwoTailed(t, d) ==
  2 * MulFP(MulFP(d, t),
            B1 + MulFP(t, B2 + MulFP(t, B3 + MulFP(t, B4 + MulFP(t, B5)))))

PValueAt(absZ) ==
  TwoTailed(DivU(S, S + MulU(PT, absZ)), MulU(PD, ExpNeg(HalfSquare(absZ))))

calculatePValue(zScore) == IF zScore = NaN THEN NaN ELSE PValueAt(Abs(zScore))

\* The counters a rate is made of: <<conversions, clicks>> for cvr (and for
\* every metric but ctr), <<clicks, impressions>> for ctr.
RateCounts(result, metric) ==
  IF metric = "ctr" THEN <<result.clicks, result.impressions>>
  ELSE <<result.conversions, result.clicks>>

\* controlRate or treatmentRate: the cvr, or the ctr, of the counters
RateOf(kind, counts) ==
  IF kind = "ctr" THEN calculateCTR(counts[1], counts[2])
  ELSE calculateCVR(counts[1], counts[2])

StatisticsRecord(zScore, pooledSE) ==
  [pValue |-> calculatePValue(zScore),
   standardError |-> pooledSE,
   zScore |-> zScore,
   minimumDetectableEffect |-> IF pooledSE = NaN THEN NaN
                               ELSE MulFP(CriticalZ, pooledSE) * 100]

StatisticsOf(controlRate, treatmentRate, seControl, seTreatment) ==
  StatisticsRecord(calculateZScore(treatmentRate, controlRate, seTreatment, seControl),
                   RootSumSquares(seControl, seTreatment))

StatisticsOfRates(controlRate, treatmentRate, controlN, treatmentN) ==
  StatisticsOf(controlRate, treatmentRate,
               calculateStandardError(controlRate, controlN),
               calculateStandardError(treatmentRate, treatmentN))

\* The part of testSignificance that does not depend on confidenceLevel, as a
\* function of the two rates' counters.
SignificanceStatistics(kind, controlCounts, treatmentCounts) ==
  StatisticsOfRates(RateOf(kind, controlCounts), RateOf(kind, treatmentCounts),
                    controlCounts[2], treatmentCounts[2])

----------------------------------------------------------------------------
(* The inputs explored.  A variants list holds up to MaxLen variants, all    *)
(* drawn from one scenario: a scenario varies two counters of a base         *)
(* variant over a small set each and names the metrics and minSampleSize     *)
(* values it is evaluated with.                                              *)

MaxLen == 3

VariantIds == <<"v1", "v2", "v3", "v4", "v5">>

\* the metrics field of an input variant: a value the caller supplies
StaleMetrics ==
  [cvr |-> Zero, ctr |-> Zero, cpa |-> Zero, roas |-> Zero, cpc |-> Zero, cpm |-> Zero]

Counters(sampleSizes, conversions, clicks, impressions, spend, revenue) ==
  [sampleSize : sampleSizes, conversions : conversions, clicks : clicks,
   impressions : impressions, spend : spend, revenue : revenue]

Scenarios ==
  { \* guards: sample sizes around minSampleSize, two rates that differ significantly
    [counters |-> Counters({0, 50}, {1, 3}, {3}, {6}, {2}, {2}),
     metrics |-> {"cvr"}, minSamples |-> {DefaultMinSampleSize, DefaultMinSampleSize + 1}],
    \* rates: zero conversions, zero clicks
    [counters |-> Counters({50}, {0, 2}, {0, 3}, {6}, {2}, {2}),
     metrics |-> {"cvr", "cpa"}, minSamples |-> {DefaultMinSampleSize}],
    \* click-through: zero impressions, more clicks than impressions
    [counters |-> Counters({50}, {1}, {3}, {0, 2, 3, 9}, {2}, {2}),
     metrics |-> {"ctr"}, minSamples |-> {DefaultMinSampleSize}],
    \* cost metrics, where lower is better; zero spend
    [counters |-> Counters({50}, {1, 3}, {3}, {6}, {0, 4}, {2}),
     metrics |-> {"cpa", "cpc", "roas"}, minSamples |-> {DefaultMinSampleSize}],
    \* revenue, with a zero baseline
    [counters |-> Counters({50}, {1, 3}, {3}, {6}, {2}, {0, 6}),
     metrics |-> {"revenue"}, minSamples |-> {DefaultMinSampleSize}],
    \* cost per acquisition: unbounded next to two finite values
    [counters |-> Counters({50}, {0, 1, 3}, {3}, {6}, {4}, {2}),
     metrics |-> {"cpa"}, minSamples |-> {DefaultMinSampleSize}] }

AllCounters == UNION {sc.counters : sc \in Scenarios}

\* a variants list of length n over a set of counters, with ids by position
VariantLists(counters, n) ==
  { [i \in 1..n |->
       [variantId |-> VariantIds[i], isControl |-> flags[i],
        sampleSize |-> cs[i].sampleSize, conversions |-> cs[i].conversions,
        clicks |-> cs[i].clicks, impressions |-> cs[i].impressions,
        spend |-> cs[i].spend, revenue |-> cs[i].revenue,
        metrics |-> StaleMetrics]] :
    <<flags, cs>> \in [1..n -> BOOLEAN] \X [1..n -> counters] }

\* every pair of counters a rate of some input is made of
AllRateCounts ==
  {<<c.conversions, c.clicks>> : c \in AllCounters}
    \cup {<<c.clicks, c.impressions>> : c \in AllCounters}

\* SignificanceStatistics, tabulated once over the inputs explored (merged
\* with the empty function, which makes it an explicit table)
StatisticsTable ==
  [key \in {"cvr", "ctr"} \X AllRateCounts \X AllRateCounts |->
     SignificanceStatistics(key[1], key[2], key[3])] @@ <<>>

\* the result with pValue compared to confidenceLevel itself
SignificanceResultInverted(stats, confLevel) ==
  [isSignificant |-> stats.pValue # NaN /\ stats.pValue < confLevel,
   pValue |-> stats.pValue,
   confidenceLevel |-> confLevel,
   standardError |-> stats.standardError,
   zScore |-> stats.zScore,
   minimumDetectableEffect |-> stats.minimumDetectableEffect]

SignificanceResult(stats, confLevel) ==
  [isSignificant |-> stats.pValue # NaN /\ stats.pValue < S - confLevel,
   pValue |-> stats.pValue,
   confidenceLevel |-> confLevel,
   standardError |-> stats.standardError,
   zScore |-> stats.zScore,
   minimumDetectableEffect |-> stats.minimumDetectableEffect]

testSignificance(controlResult, treatmentResult, metric, confLevel) ==
  SignificanceResult(StatisticsTable[<<IF metric = "ctr" THEN "ctr" ELSE "cvr",
                                       RateCounts(controlResult, metric),
                                       RateCounts(treatmentResult, metric)>>],
                     confLevel)

----------------------------------------------------------------------------
(* Winner determination.                                                   *)

NoVariant == "undefined"

Decision(status, id, improvement, confidence, reason) ==
  [status |-> status, winnerVariantId |-> id, improvement |-> improvement,
   confidence |-> confidence, reason |-> reason]

\* a faulty FindControl: the last isControl variant from i on, 0 if none
FindControlLast(vs, i) ==
  LET found == {j \in i..Len(vs) : vs[j].isControl}
  IN  IF found = {} THEN 0 ELSE CHOOSE j \in found : \A k \in found : k <= j

\* variants.find((v) => v.isControl): the index of the first match, 0 if none
RECURSIVE FindControl(_, _)
FindControl(vs, i) ==
  IF i > Len(vs) THEN 0
  ELSE IF vs[i].isControl THEN i
  ELSE FindControl(vs, i + 1)

\* variants.reduce((sum, v) => sum + v.sampleSize, 0)
RECURSIVE SumSampleSize(_, _)
SumSampleSize(vs, i) ==
  IF i > Len(vs) THEN 0 ELSE vs[i].sampleSize + SumSampleSize(vs, i + 1)

\* variants.filter((v) => !v.isControl)
Treatments(vs) == SelectSeq(vs, LAMBDA v : ~v.isControl)

isLowerBetter(metric) == metric = "cpa" \/ metric = "cpc"

\* the improvement of a treatment over the control, in percent
ImprovementBetween(controlMetric, treatmentMetric, metric) ==
  IF isLowerBetter(metric)
  THEN NumScale(NumDiv(NumSub(controlMetric, treatmentMetric), controlMetric), 100)
  ELSE NumScale(NumDiv(NumSub(treatmentMetric, controlMetric), controlMetric), 100)

Improvement(control, treatment, metric) ==
  ImprovementBetween(getMetricValue(control, metric),
                     getMetricValue(treatment, metric), metric)

\* a faulty controlBetter: higher taken as better for every metric
controlBetterHigher(control, treatment, metric) ==
  NumGt(getMetricValue(control, metric), getMetricValue(treatment, metric))

controlBetter(control, treatment, metric) ==
  IF isLowerBetter(metric)
  THEN NumLt(getMetricValue(control, metric), getMetricValue(treatment, metric))
  ELSE NumGt(getMetricValue(control, metric), getMetricValue(treatment, metric))

\* a faulty BestAfter: every qualifying treatment replaces the best so far
BestAfterLast(best, i, significance, improvement) ==
  IF significance.isSignificant /\ NumGt(improvement, Zero)
  THEN [bestTreatment |-> i, bestImprovement |-> improvement,
        bestConfidence |-> S - significance.pValue, significantWinner |-> TRUE]
  ELSE best

\* a faulty BestAfter: a treatment that equals the best so far replaces it
BestAfterNonStrict(best, i, significance, improvement) ==
  IF significance.isSignificant /\ NumGt(improvement, Zero)
     /\ ~NumGt(best.bestImprovement, improvement)
  THEN [bestTreatment |-> i, bestImprovement |-> improvement,
        bestConfidence |-> S - significance.pValue, significantWinner |-> TRUE]
  ELSE best

\* the body of the first loop, given the significance and the improvement of
\* treatment i: best is
\* [bestTreatment (index into treatments, 0 for null), bestImprovement,
\*  bestConfidence, significantWinner]
BestAfter(best, i, significance, improvement) ==
  IF significance.isSignificant /\ NumGt(improvement, Zero)
     /\ NumGt(improvement, best.bestImprovement)
  THEN [bestTreatment |-> i, bestImprovement |-> improvement,
        bestConfidence |-> S - significance.pValue, significantWinner |-> TRUE]
  ELSE best

\* one iteration of the first loop
WinnerStep(best, control, treatments, i, metric, confLevel) ==
  BestAfter(best, i, testSignificance(control, treatments[i], metric, confLevel),
            Improvement(control, treatments[i], metric))

RECURSIVE WinnerLoop(_, _, _, _, _, _)
WinnerLoop(best, control, treatments, i, metric, confLevel) ==
  IF i > Len(treatments) THEN best
  ELSE WinnerLoop(WinnerStep(best, control, treatments, i, metric, confLevel),
                  control, treatments, i + 1, metric, confLevel)

\* the second loop: the first treatment the control is significantly better
\* than (its index, 0 if none)
RECURSIVE LoserLoop(_, _, _, _, _)
LoserLoop(control, treatments, i, metric, confLevel) ==
  IF i > Len(treatments) THEN 0
  ELSE IF testSignificance(control, treatments[i], metric, confLevel).isSignificant
          /\ controlBetter(control, treatments[i], metric)
       THEN i
  ELSE LoserLoop(control, treatments, i + 1, metric, confLevel)

\* a faulty FailedGuard: the sample guard ahead of the control guard
FailedGuardSampleFirst(vs, minSample) ==
  IF Len(vs) < 2 THEN "variants"
  ELSE IF SumSampleSize(vs, 1) < minSample THEN "sample"
  ELSE IF FindControl(vs, 1) = 0 THEN "control"
  ELSE "none"

\* a faulty FailedGuard: a total equal to minSampleSize refused
FailedGuardInclusive(vs, minSample) ==
  IF Len(vs) < 2 THEN "variants"
  ELSE IF FindControl(vs, 1) = 0 THEN "control"
  ELSE IF SumSampleSize(vs, 1) <= minSample THEN "sample"
  ELSE "none"

\* the three guards, in the order of the code: the reason of the first one
\* that fails, "none" when all pass
FailedGuard(vs, minSample) ==
  IF Len(vs) < 2 THEN "variants"
  ELSE IF FindControl(vs, 1) = 0 THEN "control"
  ELSE IF SumSampleSize(vs, 1) < minSample THEN "sample"
  ELSE "none"

InsufficientData(reason) ==
  Decision("insufficient_data", NoVariant, Undefined, 0, reason)

WinnerDecision(best, treatments) ==
  Decision("winner", treatments[best.bestTreatment].variantId,
           best.bestImprovement, best.bestConfidence, "winner")

\* a faulty LoserDecision: the pValue as the confidence
LoserDecisionPValue(control, significance) ==
  Decision("loser", control.variantId, Undefined, significance.pValue, "loser")

LoserDecision(control, significance) ==
  Decision("loser", control.variantId, Undefined, S - significance.pValue, "loser")

\* a faulty TieDecision: the confidence of insufficient_data
TieDecisionZero == Decision("tie", NoVariant, Undefined, 0, "tie")

TieDecision == Decision("tie", NoVariant, Undefined, S \div 2, "tie")

NoBest ==
  [bestTreatment |-> 0, bestImprovement |-> Zero, bestConfidence |-> 0,
   significantWinner |-> FALSE]

\* the returns after the loops: best is the result of the first loop, lost
\* the treatment the second loop stops at (0 if none)
Verdict(control, treatments, best, lost, metric, confLevel) ==
  IF best.significantWinner /\ best.bestTreatment # 0
  THEN WinnerDecision(best, treatments)
  ELSE IF lost # 0
  THEN LoserDecision(control,
                     testSignificance(control, treatments[lost], metric, confLevel))
  ELSE TieDecision

\* the comparison of the treatments with the control
Compare(control, treatments, metric, confLevel) ==
  Verdict(control, treatments,
          WinnerLoop(NoBest, control, treatments, 1, metric, confLevel),
          LoserLoop(control, treatments, 1, metric, confLevel),
          metric, confLevel)

determineWinner(vs, metric, confLevel, minSample) ==
  IF FailedGuard(vs, minSample) # "none"
  THEN InsufficientData(FailedGuard(vs, minSample))
  ELSE Compare(vs[FindControl(vs, 1)], Treatments(vs), metric, confLevel)

----------------------------------------------------------------------------
(* Learnings, next-run suggestion, test result.                            *)

\* calculateVariantMetrics(v).ctr and calculateVariantMetrics(v).cpa, the two
\* fields generateLearnings reads
CtrOf(v) == calculateCTR(v.clicks, v.impressions)

CpaOf(v) == calculateCPA(v.spend, v.conversions)

\* the two comparators of generateLearnings: whether a sorts before b
\* (a comparator result that is NaN, Infinity - Infinity, leaves the order)
SortsBefore(a, b, order) ==
  IF order = "ctr" THEN NumGt(CtrOf(a), CtrOf(b)) ELSE NumLt(CpaOf(a), CpaOf(b))

\* [...vs].sort(compare), a stable sort: x is placed before the first element
\* it must precede
RECURSIVE InsertSorted(_, _, _, _)
InsertSorted(sorted, x, i, order) ==
  IF i > Len(sorted) THEN Append(sorted, x)
  ELSE IF SortsBefore(x, sorted[i], order)
       THEN SubSeq(sorted, 1, i - 1) \o <<x>> \o SubSeq(sorted, i, Len(sorted))
  ELSE InsertSorted(sorted, x, i + 1, order)

RECURSIVE SortFrom(_, _, _, _)
SortFrom(vs, i, sorted, order) ==
  IF i > Len(vs) THEN sorted
  ELSE SortFrom(vs, i + 1, InsertSorted(sorted, vs[i], 1, order), order)

Sorted(vs, order) == SortFrom(vs, 1, <<>>, order)

\* a faulty VariantsAfterLearnings: the list itself sorted by CTR
VariantsAfterLearningsSorted(vs) == Sorted(vs, "ctr")

\* the list passed to generateLearnings once it has returned: the sorts and
\* the filter().pop() work on copies
VariantsAfterLearnings(vs) == vs

\* variants.find((v) => v.variantId === id): the index, 0 if none
RECURSIVE FindVariant(_, _, _)
FindVariant(vs, id, i) ==
  IF i > Len(vs) THEN 0
  ELSE IF vs[i].variantId = id THEN i
  ELSE FindVariant(vs, id, i + 1)

\* JavaScript truthiness of an optional number
Truthy(x) == x.k = "inf" \/ (x.k = "fin" /\ x.n # 0)

Learning(kind, best, worst, value, impact) ==
  [kind |-> kind, best |-> best, worst |-> worst, value |-> value, impact |-> impact]

WinnerLearning(vs, w) ==
  IF w.status = "winner" /\ w.winnerVariantId # NoVariant
     /\ FindVariant(vs, w.winnerVariantId, 1) # 0
  THEN <<Learning("winner", w.winnerVariantId, NoVariant, w.improvement,
                  IF Truthy(w.improvement) /\ NumGt(w.improvement, Fin(20, 1))
                  THEN "high" ELSE "medium")>>
  ELSE <<>>

CtrLearningOf(bestCTR, worstCTR, ctrDiff) ==
  IF NumGt(ctrDiff, Fin(1, 2))
  THEN <<Learning("ctr", bestCTR.variantId, worstCTR.variantId, ctrDiff,
                  IF NumGt(ctrDiff, Fin(1, 1)) THEN "high" ELSE "medium")>>
  ELSE <<>>

CtrLearningFrom(sortedByCTR) ==
  CtrLearningOf(sortedByCTR[1], sortedByCTR[Len(sortedByCTR)],
                NumSub(CtrOf(sortedByCTR[1]), CtrOf(sortedByCTR[Len(sortedByCTR)])))

CtrLearning(vs) == CtrLearningFrom(Sorted(vs, "ctr"))

CpaLearningOf(bestCPA, worstCPA, cpaDiff) ==
  IF NumGt(cpaDiff, Fin(30, 1))
  THEN <<Learning("cpa", bestCPA.variantId, worstCPA.variantId, cpaDiff, "high")>>
  ELSE <<>>

\* finite is the sorted list without the variants of infinite cpa; its last
\* element is worstCPA, undefined when it is empty
CpaLearningFrom(bestCPA, finite) ==
  IF Len(finite) = 0 THEN <<>>
  ELSE CpaLearningOf(bestCPA, finite[Len(finite)],
                     NumScale(NumDiv(NumSub(CpaOf(finite[Len(finite)]), CpaOf(bestCPA)),
                                     CpaOf(bestCPA)), 100))

\* worstCPA taken from the whole sorted list
CpaLearningSortedUnfiltered(sortedByCPA) ==
  CpaLearningFrom(sortedByCPA[1], sortedByCPA)

CpaLearningSorted(sortedByCPA) ==
  CpaLearningFrom(sortedByCPA[1],
                  SelectSeq(sortedByCPA, LAMBDA v : NumLt(CpaOf(v), Infinity)))

CpaLearning(vs) == CpaLearningSorted(Sorted(vs, "cpa"))

\* [threw, learnings]: on an empty list sortedByCTR[0] is undefined and
\* calculateVariantMetrics(undefined) throws a TypeError
generateLearnings(vs, w) ==
  IF Len(vs) = 0 THEN [threw |-> TRUE, learnings |-> <<>>]
  ELSE [threw |-> FALSE,
        learnings |-> WinnerLearning(vs, w) \o CtrLearning(vs) \o CpaLearning(vs)]

Null == [type |-> "null"]

Suggestion(type, targets, expectedImprovement, confidence, priority) ==
  [type |-> type, targets |-> targets, expectedImprovement |-> expectedImprovement,
   confidence |-> confidence, priority |-> priority]

InsufficientDataSuggestion ==
  Suggestion("iterate", <<"budget", "schedule">>, Zero, S \div 2, "high")

\* a faulty WinnerSuggestion: the whole improvement expected again
WinnerSuggestionWhole(w, vs) ==
  IF FindVariant(vs, w.winnerVariantId, 1) = 0 THEN Null
  ELSE Suggestion("iterate", <<"headline", "cta">>,
                  IF Truthy(w.improvement) THEN w.improvement ELSE Fin(10, 1),
                  MulFP(w.confidence, 8 * (S \div 10)), "high")

WinnerSuggestion(w, vs) ==
  IF FindVariant(vs, w.winnerVariantId, 1) = 0 THEN Null
  ELSE Suggestion("iterate", <<"headline", "cta">>,
                  IF Truthy(w.improvement)
                  THEN NumDiv(w.improvement, Fin(2, 1)) ELSE Fin(10, 1),
                  MulFP(w.confidence, 8 * (S \div 10)), "high")

TieSuggestion ==
  Suggestion("pivot", <<"headline", "image">>, Fin(15, 1), S \div 2, "medium")

\* a faulty generateNextRunSuggestion: nothing suggested for an empty list
generateNextRunSuggestionEmpty(w, learnings, vs) ==
  IF Len(vs) = 0 THEN Null
  ELSE IF w.status = "insufficient_data" THEN InsufficientDataSuggestion
  ELSE IF w.status = "winner" /\ w.winnerVariantId # NoVariant
  THEN WinnerSuggestion(w, vs)
  ELSE IF w.status = "tie" THEN TieSuggestion
  ELSE Null

\* learnings is a parameter the code never reads
generateNextRunSuggestion(w, learnings, vs) ==
  IF w.status = "insufficient_data" THEN InsufficientDataSuggestion
  ELSE IF w.status = "winner" /\ w.winnerVariantId # NoVariant
  THEN WinnerSuggestion(w, vs)
  ELSE IF w.status = "tie" THEN TieSuggestion
  ELSE Null

\* variants.map((v) => ({...v, metrics: calculateVariantMetrics(v)}))
Enriched(vs) ==
  [i \in 1..Len(vs) |-> [vs[i] EXCEPT !.metrics = calculateVariantMetrics(vs[i])]]

\* the TestResult returned, unless generateLearnings threw
TestResultOf(vs, metric, enrichedVariants, w, generated) ==
  IF generated.threw THEN [threw |-> TRUE]
  ELSE [threw |-> FALSE, primaryMetric |-> metric,
        variants |-> VariantsAfterLearnings(enrichedVariants),
        winner |-> w, confidence |-> w.confidence,
        sampleSize |-> SumSampleSize(vs, 1), learnings |-> generated.learnings]

TestResultWith(vs, metric, enrichedVariants, w) ==
  TestResultOf(vs, metric, enrichedVariants, w, generateLearnings(enrichedVariants, w))

createTestResult(vs, metric) ==
  TestResultWith(vs, metric, Enriched(vs),
                 determineWinner(Enriched(vs), metric,
                                 DefaultConfidenceLevel, DefaultMinSampleSize))

----------------------------------------------------------------------------
(* The entry points as actions.                                            *)

(***************************************************************************)
(* Sample size planning: calculateRequiredSampleSize.  baselineRate and    *)
(* minimumDetectableEffect are percentages; the z values are held in       *)
(* thousandths, the result is an exact number or Infinity.                 *)
(***************************************************************************)
ZAlpha95 == 1960
ZAlpha99 == 2576
ZBeta80 == 840
ZBeta90 == 1280

DefaultPower == 8000000
\* the other power and confidence level the z values are tabulated for
HighPower == 9 * (S \div 10)
HighConfidenceLevel == 99 * (S \div 100)

zAlphaOf(confLevel) == IF confLevel = DefaultConfidenceLevel THEN ZAlpha95 ELSE ZAlpha99

zBetaOf(power) == IF power = DefaultPower THEN ZBeta80 ELSE ZBeta90

\* Math.ceil(a / b) for b > 0
CeilDiv(a, b) == 0 - ((0 - a) \div b)

\* (zAlpha + zBeta)^2 / 2, the factor of pooledP * (1 - pooledP) / (p2 - p1)^2
SampleSizeCoefficient(zSum) == Fin(zSum * zSum, 2 * 10^6)

\* pooledP * (1 - pooledP) in units of 1 / 200^2, for p1 = b / 100 and
\* p2 = p1 + mde / 100
PooledProduct(baselineRate, mde) ==
  (2 * baselineRate + mde) * (200 - 2 * baselineRate - mde)

\* Math.ceil(x * y) for finite x and y
CeilOfProduct(x, y) == Fin(CeilDiv(x.n * y.n, x.d * y.d), 1)

\* the numerator alone, rounded up
RequiredSampleSizeNumerator(coef, product, mde) ==
  IF mde = 0 THEN Infinity ELSE CeilOfProduct(coef, Fin(product, 10^4))

\* Math.ceil(numerator / denominator), Infinity when the denominator is 0
RequiredSampleSize(coef, product, mde) ==
  IF mde = 0 THEN Infinity ELSE CeilOfProduct(coef, Fin(product, mde * mde))

calculateRequiredSampleSize(baselineRate, mde, power, confLevel) ==
  RequiredSampleSize(SampleSizeCoefficient(zAlphaOf(confLevel) + zBetaOf(power)),
                     PooledProduct(baselineRate, mde), mde)

None == [status |-> "none"]

\* no call made to the other components
DomainsIdle ==
  numeric = None /\ run = None /\ stop = None /\ approval = None /\ lp = None

\* no call made to the engine
EngineIdle ==
  /\ variants = <<>>
  /\ primaryMetric = "cvr"
  /\ confidenceLevel = DefaultConfidenceLevel
  /\ minSampleSize = DefaultMinSampleSize
  /\ pc = "idle"
  /\ winner = None
  /\ testResult = None
  /\ suggestionInput = None
  /\ suggestion = None

Init ==
  /\ \E sc \in Scenarios :
       /\ \E n \in 0..MaxLen : variants \in VariantLists(sc.counters, n)
       /\ primaryMetric \in sc.metrics
       /\ minSampleSize \in sc.minSamples
  /\ confidenceLevel = DefaultConfidenceLevel
  /\ pc = "input"
  /\ winner = None
  /\ testResult = None
  /\ suggestionInput = None
  /\ suggestion = None
  /\ DomainsIdle

DetermineWinner ==
  /\ pc = "input"
  /\ winner' = determineWinner(variants, primaryMetric, confidenceLevel, minSampleSize)
  /\ pc' = "decided"
  /\ UNCHANGED <<variants, primaryMetric, confidenceLevel, minSampleSize,
                 testResult, suggestionInput, suggestion>>
  /\ UNCHANGED domainVars

CreateTestResult ==
  /\ pc = "input"
  /\ testResult' = createTestResult(variants, primaryMetric)
  /\ pc' = "created"
  /\ UNCHANGED <<variants, primaryMetric, confidenceLevel, minSampleSize,
                 winner, suggestionInput, suggestion>>
  /\ UNCHANGED domainVars

\* The caller passes a decision, learnings and a variants list of its own: the
\* decision just made or one without a winnerVariantId, the learning about
\* the winner or none, the list evaluated or none.
GenerateNextRunSuggestion ==
  /\ pc = "decided"
  /\ \E args \in {<<winner, WinnerLearning(variants, winner), variants>>,
                    <<winner, <<>>, <<>> >>,
                    <<[winner EXCEPT !.winnerVariantId = NoVariant], <<>>, variants>>} :
       /\ suggestionInput' = [winner |-> args[1], learnings |-> args[2],
                              variants |-> args[3]]
       /\ suggestion' = generateNextRunSuggestion(args[1], args[2], args[3])
  /\ pc' = "suggested"
  /\ UNCHANGED <<variants, primaryMetric, confidenceLevel, minSampleSize,
                 winner, testResult>>
  /\ UNCHANGED domainVars

Next == DetermineWinner \/ CreateTestResult \/ GenerateNextRunSuggestion

Spec == Init /\ [][Next]_vars

(***************************************************************************)
(* The statistics functions called on their own: a planner call is made    *)
(* for one baseline with two effects, so that its results can be compared. *)
(***************************************************************************)
BaselineRates == {0, 10, 50, 90}
Effects == {0, 1, 2, 10, 50, 80}
ZScores == {0, CriticalZ, 0 - CriticalZ, S, 3 * S, 8 * S, NaN}

PlannerCalls ==
  [call : {"calculateRequiredSampleSize"}, done : {FALSE},
   baselineRate : BaselineRates, mde1 : Effects, mde2 : Effects,
   power : {DefaultPower, HighPower},
   confidenceLevel : {DefaultConfidenceLevel, HighConfidenceLevel},
   result1 : {Undefined}, result2 : {Undefined}]

PValueCalls ==
  [call : {"calculatePValue"}, done : {FALSE}, zScore : ZScores, result : {NaN}]

\* confidence levels from 0 to 1, with the two smallest steps above 0
ConfidenceLevels ==
  {0, 1, 10, S \div 2, DefaultConfidenceLevel, HighConfidenceLevel, S}

\* a VariantResult made of counters
VariantOf(id, isControl, counters) ==
  [variantId |-> id, isControl |-> isControl,
   sampleSize |-> counters.sampleSize, conversions |-> counters.conversions,
   clicks |-> counters.clicks, impressions |-> counters.impressions,
   spend |-> counters.spend, revenue |-> counters.revenue,
   metrics |-> StaleMetrics]

\* testSignificance called for one pair of variants at two confidence levels
SignificanceCalls ==
  {[call |-> "testSignificance", done |-> FALSE,
    control |-> VariantOf("v1", TRUE, c), treatment |-> VariantOf("v2", FALSE, t),
    metric |-> m, confidenceLevel1 |-> c1, confidenceLevel2 |-> c2,
    result1 |-> None, result2 |-> None] :
   c \in AllCounters, t \in AllCounters, m \in {"cvr", "ctr", "cpa"},
   c1 \in ConfidenceLevels, c2 \in ConfidenceLevels}

InitNumeric ==
  /\ EngineIdle
  /\ numeric \in PlannerCalls \cup PValueCalls \cup SignificanceCalls
  /\ run = None /\ stop = None /\ approval = None /\ lp = None

CalculateRequiredSampleSize ==
  /\ numeric.call = "calculateRequiredSampleSize"
  /\ ~numeric.done
  /\ numeric' = [numeric EXCEPT
       !.done = TRUE,
       !.result1 = calculateRequiredSampleSize(numeric.baselineRate, numeric.mde1,
                                               numeric.power, numeric.confidenceLevel),
       !.result2 = calculateRequiredSampleSize(numeric.baselineRate, numeric.mde2,
                                               numeric.power, numeric.confidenceLevel)]
  /\ UNCHANGED <<engineVars, run, stop, approval, lp>>

CalculatePValue ==
  /\ numeric.call = "calculatePValue"
  /\ ~numeric.done
  /\ numeric' = [numeric EXCEPT !.done = TRUE,
                                !.result = calculatePValue(numeric.zScore)]
  /\ UNCHANGED <<engineVars, run, stop, approval, lp>>

TestSignificance ==
  /\ numeric.call = "testSignificance"
  /\ ~numeric.done
  /\ numeric' = [numeric EXCEPT
       !.done = TRUE,
       !.result1 = testSignificance(numeric.control, numeric.treatment, numeric.metric,
                                    numeric.confidenceLevel1),
       !.result2 = testSignificance(numeric.control, numeric.treatment, numeric.metric,
                                    numeric.confidenceLevel2)]
  /\ UNCHANGED <<engineVars, run, stop, approval, lp>>

NextNumeric == CalculateRequiredSampleSize \/ CalculatePValue \/ TestSignificance

SpecNumeric == InitNumeric /\ [][NextNumeric]_vars

----------------------------------------------------------------------------
(* Vocabulary of the properties, stated on the inputs and not through the   *)
(* operators of determineWinner.                                            *)

Controls == {i \in 1..Len(variants) : variants[i].isControl}

FirstControl == CHOOSE i \in Controls : \A j \in Controls : i <= j

TotalSampleSize ==
  LET RECURSIVE upTo(_)
      upTo(n) == IF n = 0 THEN 0 ELSE variants[n].sampleSize + upTo(n - 1)
  IN  upTo(Len(variants))

GuardsPass ==
  Len(variants) >= 2 /\ Controls # {} /\ TotalSampleSize >= minSampleSize

\* an insufficient_data decision with the given reason
IsInsufficient(reason) ==
  winner = [status |-> "insufficient_data", winnerVariantId |-> NoVariant,
            improvement |-> Undefined, confidence |-> 0, reason |-> reason]

----------------------------------------------------------------------------
(* C1: determineWinner checks variant count, then control presence, then    *)
(* total sample size, and returns insufficient_data (confidence 0, no       *)
(* winnerVariantId, no improvement) with the reason of the first guard that *)
(* fails: fewer than 2 variants gets the "at least 2 variants" reason       *)
(* whatever else is missing, and 2 or more variants without a control get   *)
(* the "control" reason even when the total sample size is too small.       *)
ThmC1 ==
  pc = "decided" =>
    /\ Len(variants) < 2 => IsInsufficient("variants")
    /\ Len(variants) >= 2 /\ Controls = {} => IsInsufficient("control")
    /\ Len(variants) >= 2 /\ Controls # {} /\ TotalSampleSize < minSampleSize
         => IsInsufficient("sample")

\* two or more variants, no control and too few samples: the control reason
WitC1 ==
  /\ pc = "decided"
  /\ Len(variants) >= 2 /\ Controls = {} /\ TotalSampleSize < minSampleSize
  /\ winner.reason = "control"

(* C2: for 2 or more variants with a control, determineWinner returns       *)
(* insufficient_data exactly when the sum of the sample sizes is strictly   *)
(* below minSampleSize, whatever the conversions and clicks are; a sum      *)
(* equal to minSampleSize is enough.                                        *)
ThmC2 ==
  pc = "decided" /\ Len(variants) >= 2 /\ Controls # {} =>
    (winner.status = "insufficient_data" <=> TotalSampleSize < minSampleSize)

\* the sum is exactly minSampleSize and the decision is a verdict
WitC2 ==
  /\ pc = "decided" /\ Len(variants) >= 2 /\ Controls # {}
  /\ TotalSampleSize = minSampleSize
  /\ winner.status \in {"winner", "loser", "tie"}

----------------------------------------------------------------------------
(* The comparisons of the treatments with the first control.                *)

TreatmentIndexes == {i \in 1..Len(variants) : ~variants[i].isControl}

SignificanceOf(i) ==
  testSignificance(variants[FirstControl], variants[i], primaryMetric, confidenceLevel)

ImprovementOf(i) == Improvement(variants[FirstControl], variants[i], primaryMetric)

\* the treatments that are significant and improve on the control
Qualifiers ==
  {i \in TreatmentIndexes :
     SignificanceOf(i).isSignificant /\ NumGt(ImprovementOf(i), Zero)}

\* the control's primary metric is strictly better than that of variant i
ControlStrictlyBetter(i) ==
  LET controlMetric == getMetricValue(variants[FirstControl], primaryMetric)
      treatmentMetric == getMetricValue(variants[i], primaryMetric)
  IN  IF primaryMetric \in {"cpa", "cpc"}
      THEN NumLt(controlMetric, treatmentMetric)
      ELSE NumGt(controlMetric, treatmentMetric)

\* the treatments the control is significantly better than
Losers ==
  {i \in TreatmentIndexes : SignificanceOf(i).isSignificant /\ ControlStrictlyBetter(i)}

(* C3: when the guards pass and some treatment is significant against the   *)
(* control with improvement > 0, determineWinner returns winner, naming a   *)
(* qualifying treatment of maximum improvement, with that improvement and   *)
(* with confidence 1 - pValue of that treatment's comparison.               *)
ThmC3 ==
  pc = "decided" /\ GuardsPass /\ Qualifiers # {} =>
    /\ winner.status = "winner"
    /\ \E i \in Qualifiers :
         /\ winner.winnerVariantId = variants[i].variantId
         /\ \A j \in Qualifiers : ~NumGt(ImprovementOf(j), ImprovementOf(i))
         /\ winner.improvement = ImprovementOf(i)
         /\ winner.confidence = S - SignificanceOf(i).pValue

\* two qualifying treatments, the better one first, and it is the winner
WitC3 ==
  /\ pc = "decided" /\ GuardsPass
  /\ \E i, j \in Qualifiers :
       /\ i < j /\ NumGt(ImprovementOf(i), ImprovementOf(j))
       /\ winner.status = "winner"
       /\ winner.winnerVariantId = variants[i].variantId

(* C4: when the guards pass and no treatment qualifies as a winner,         *)
(* determineWinner returns loser exactly when some treatment is significant *)
(* against the control and the control's primary metric is strictly better  *)
(* (lower for cpa and cpc, higher otherwise); the loser decision names the  *)
(* control and has no improvement.                                          *)
ThmC4 ==
  pc = "decided" /\ GuardsPass /\ Qualifiers = {} =>
    /\ winner.status = "loser" <=> Losers # {}
    /\ winner.status = "loser" =>
         /\ winner.winnerVariantId = variants[FirstControl].variantId
         /\ winner.improvement = Undefined

\* a loser under a lower-is-better metric
WitC4 ==
  /\ pc = "decided" /\ GuardsPass /\ Qualifiers = {}
  /\ primaryMetric \in {"cpa", "cpc"}
  /\ Losers # {}
  /\ winner.status = "loser"

(* C5: when the guards pass and neither the winner nor the loser condition  *)
(* holds, determineWinner returns tie with confidence exactly 0.5 and with  *)
(* neither winnerVariantId nor improvement; over all inputs winnerVariantId *)
(* is present if and only if the status is winner or loser.                 *)
ThmC5 ==
  pc = "decided" =>
    /\ GuardsPass /\ Qualifiers = {} /\ Losers = {} =>
         /\ winner.status = "tie"
         /\ winner.confidence = S \div 2
         /\ winner.winnerVariantId = NoVariant
         /\ winner.improvement = Undefined
    /\ winner.winnerVariantId # NoVariant <=> winner.status \in {"winner", "loser"}

\* a tie among treatments none of which is significant against the control
WitC5 ==
  /\ pc = "decided" /\ GuardsPass
  /\ TreatmentIndexes # {}
  /\ \A i \in TreatmentIndexes : ~SignificanceOf(i).isSignificant
  /\ winner.status = "tie"

(* C6: createTestResult never throws and returns a TestResult with one     *)
(* WinnerDecision for every list of variants with non-negative counters;    *)
(* for the empty list and a single-variant list the status is               *)
(* insufficient_data.  The code throws on the empty list: generateLearnings *)
(* reads the first element of the sorted copy.                              *)
CexC6 ==
  pc = "created" =>
    /\ ~testResult.threw
    /\ testResult.winner.status \in {"insufficient_data", "winner", "loser", "tie"}
    /\ Len(variants) < 2 => testResult.winner.status = "insufficient_data"

\* x is the ratio num / den of two naturals, den > 0
RatioIs(x, num, den) == x.k = "fin" /\ x.d > 0 /\ x.n * den = x.d * num

\* the metrics m are those stated for the counters of v
MetricsAsStated(v, m) ==
  /\ \A x \in {m.cvr, m.ctr, m.cpa, m.roas, m.cpc, m.cpm} : x.k \in {"fin", "inf"}
  /\ IF v.clicks = 0 THEN m.cvr = Zero /\ m.cpc = Zero
     ELSE /\ RatioIs(m.cvr, v.conversions * 100, v.clicks)
          /\ RatioIs(m.cpc, v.spend, v.clicks)
  /\ IF v.impressions = 0 THEN m.ctr = Zero /\ m.cpm = Zero
     ELSE /\ RatioIs(m.ctr, v.clicks * 100, v.impressions)
          /\ RatioIs(m.cpm, v.spend * 1000, v.impressions)
  /\ IF v.spend = 0 THEN m.roas = Zero ELSE RatioIs(m.roas, v.revenue, v.spend)
  /\ IF v.conversions = 0 THEN m.cpa = Infinity
     ELSE RatioIs(m.cpa, v.spend, v.conversions)

(* C7: calculateVariantMetrics returns a defined value for each of the six  *)
(* metrics: cvr and cpc are 0 when clicks = 0, ctr and cpm are 0 when       *)
(* impressions = 0, roas is 0 when spend = 0, cpa is +Infinity when         *)
(* conversions = 0, and otherwise each metric is its ratio.                 *)
ThmC7 ==
  pc = "created" /\ ~testResult.threw =>
    \A i \in 1..Len(variants) :
      MetricsAsStated(variants[i], testResult.variants[i].metrics)

\* a variant without clicks and conversions next to one with both
WitC7 ==
  /\ pc = "created" /\ ~testResult.threw
  /\ \E i, j \in 1..Len(variants) :
       /\ variants[i].conversions = 0 /\ variants[i].clicks = 0
       /\ testResult.variants[i].metrics.cpa = Infinity
       /\ testResult.variants[i].metrics.cvr = Zero
       /\ variants[j].conversions > 0 /\ variants[j].clicks > 0
       /\ testResult.variants[j].metrics.cvr.n > 0

(* C8: when several variants have isControl = true, determineWinner uses    *)
(* the first of them as the control of every comparison; the others are     *)
(* never the winnerVariantId of a winner decision and never cause a loser   *)
(* decision.                                                                *)
ThmC8 ==
  pc = "decided" /\ Cardinality(Controls) >= 2 =>
    /\ winner.status = "winner" =>
         \E i \in TreatmentIndexes :
           /\ winner.winnerVariantId = variants[i].variantId
           /\ winner.improvement = ImprovementOf(i)
           /\ winner.confidence = S - SignificanceOf(i).pValue
    /\ winner.status = "loser" =>
         /\ winner.winnerVariantId = variants[FirstControl].variantId
         /\ Losers # {}
         /\ \E i \in Losers : winner.confidence = S - SignificanceOf(i).pValue

\* a second control the first control is significantly better than, and a
\* treatment, yet no loser decision
WitC8 ==
  /\ pc = "decided" /\ GuardsPass
  /\ TreatmentIndexes # {}
  /\ \E c \in Controls \ {FirstControl} :
       SignificanceOf(c).isSignificant /\ ControlStrictlyBetter(c)
  /\ winner.status = "tie"

(* C9: the confidence of the WinnerDecision of determineWinner, which       *)
(* createTestResult copies into TestResult.confidence, lies in [0,1]: 0 for *)
(* insufficient_data, 0.5 for tie, and 1 - pValue with 0 <= 1 - pValue <= 1 *)
(* for winner and loser.                                                    *)
ThmC9 ==
  /\ pc = "decided" =>
       /\ 0 <= winner.confidence /\ winner.confidence <= S
       /\ winner.status = "insufficient_data" => winner.confidence = 0
       /\ winner.status = "tie" => winner.confidence = S \div 2
       /\ winner.status \in {"winner", "loser"} =>
            \E i \in TreatmentIndexes :
              /\ SignificanceOf(i).isSignificant
              /\ winner.confidence = S - SignificanceOf(i).pValue
  /\ pc = "created" /\ ~testResult.threw =>
       /\ testResult.confidence = testResult.winner.confidence
       /\ 0 <= testResult.confidence /\ testResult.confidence <= S

\* a loser decision, its confidence above the confidence level
WitC9 ==
  /\ pc = "decided" /\ winner.status = "loser"
  /\ winner.confidence > confidenceLevel /\ winner.confidence <= S

----------------------------------------------------------------------------
(* Calls of generateNextRunSuggestion to compare a call with.               *)

AlternativeDecisions ==
  {Decision(status, id, Undefined, S \div 2, "any") :
     status \in {"insufficient_data", "winner", "loser", "tie"},
     id \in {NoVariant, VariantIds[1], VariantIds[5]}}

AlternativeLearnings ==
  {<<>>, <<Learning("ctr", VariantIds[1], VariantIds[2], Fin(1, 1), "medium")>>}

AlternativeVariants ==
  {<<>>} \cup VariantLists(Counters({50}, {1}, {3}, {6}, {2}, {2}), 1)

\* winnerVariantId is set and names a variant of the list
Found(w, vs) ==
  w.winnerVariantId # NoVariant
    /\ \E i \in 1..Len(vs) : vs[i].variantId = w.winnerVariantId

(* C10, as stated: the kind of result of generateNextRunSuggestion (null,   *)
(* or the type) is the same for any two calls whose WinnerDecision has the  *)
(* same status, whatever the variants, learnings and winnerVariantId.       *)
CexC10 ==
  pc = "suggested" =>
    \A w \in AlternativeDecisions, l \in AlternativeLearnings,
       vs \in AlternativeVariants :
      w.status = suggestionInput.winner.status
        => generateNextRunSuggestion(w, l, vs).type = suggestion.type

(* C10, amended: the kind of result is the same for any two calls whose     *)
(* WinnerDecision has the same status and, for status winner, that agree on *)
(* whether winnerVariantId is set and names a variant of the list passed;   *)
(* the learnings and the rest of the list do not matter.                    *)
ThmC10 ==
  pc = "suggested" =>
    \A w \in AlternativeDecisions, l \in AlternativeLearnings,
       vs \in AlternativeVariants :
      /\ w.status = suggestionInput.winner.status
      /\ w.status = "winner" =>
           (Found(w, vs) <=> Found(suggestionInput.winner, suggestionInput.variants))
      => generateNextRunSuggestion(w, l, vs).type = suggestion.type

\* a winner decision passed with a list that lacks the winner: null
WitC10 ==
  /\ pc = "suggested"
  /\ suggestionInput.winner.status = "winner"
  /\ suggestionInput.winner.winnerVariantId # NoVariant
  /\ ~Found(suggestionInput.winner, suggestionInput.variants)
  /\ suggestion = Null

----------------------------------------------------------------------------
\* x is half of the extended rational y
HalfOf(x, y) ==
  IF y.k = "fin" THEN x.k = "fin" /\ x.n * (2 * y.d) = x.d * y.n ELSE x = y

\* x is 0.8 * y in fixed point, to the last digit
FourFifthsOf(x, y) == 5 * x <= 4 * y /\ 4 * y < 5 * x + 5

(* C11: for a WinnerDecision of determineWinner passed with the same list   *)
(* to generateNextRunSuggestion: winner gives type iterate with             *)
(* expectedImprovement = improvement * 0.5 and confidence =                 *)
(* confidence * 0.8; tie gives type pivot with expectedImprovement 15 and   *)
(* confidence 0.5; insufficient_data gives type iterate with a budget and a *)
(* schedule change; loser gives null.                                       *)
ThmC11 ==
  pc = "suggested" /\ suggestionInput.winner = winner
    /\ suggestionInput.variants = variants =>
      CASE winner.status = "winner" ->
             /\ suggestion.type = "iterate"
             /\ HalfOf(suggestion.expectedImprovement, winner.improvement)
             /\ FourFifthsOf(suggestion.confidence, winner.confidence)
        [] winner.status = "tie" ->
             /\ suggestion.type = "pivot"
             /\ suggestion.expectedImprovement = Fin(15, 1)
             /\ suggestion.confidence = S \div 2
        [] winner.status = "insufficient_data" ->
             /\ suggestion.type = "iterate"
             /\ suggestion.targets = <<"budget", "schedule">>
        [] winner.status = "loser" -> suggestion = Null

\* a winner of finite improvement passed on with its list
WitC11 ==
  /\ pc = "suggested" /\ suggestionInput.winner = winner
  /\ suggestionInput.variants = variants
  /\ winner.status = "winner" /\ winner.improvement.k = "fin"
  /\ suggestion.type = "iterate"
  /\ suggestion.confidence > 0

(* C12: learning and suggestion generation never changes the decision:     *)
(* generateLearnings and generateNextRunSuggestion leave the decision and   *)
(* the variants they receive unchanged, and the TestResult of               *)
(* createTestResult has winner = determineWinner(variants, primaryMetric)   *)
(* and confidence = winner.confidence, whatever learnings are produced.     *)
ThmC12 ==
  /\ pc = "suggested" =>
       /\ winner = determineWinner(variants, primaryMetric, confidenceLevel,
                                   minSampleSize)
       /\ suggestionInput.winner \in
            {winner, [winner EXCEPT !.winnerVariantId = NoVariant]}
  /\ pc = "created" /\ ~testResult.threw =>
       /\ testResult.winner = determineWinner(variants, primaryMetric,
                                              DefaultConfidenceLevel,
                                              DefaultMinSampleSize)
       /\ testResult.confidence = testResult.winner.confidence
       /\ Len(testResult.variants) = Len(variants)
       /\ \A i \in 1..Len(variants) :
            [testResult.variants[i] EXCEPT !.metrics = StaleMetrics] = variants[i]

\* a result with a winner and learnings, the list not in CTR order
WitC12 ==
  /\ pc = "created" /\ ~testResult.threw
  /\ testResult.winner.status = "winner"
  /\ Len(testResult.learnings) >= 2
  /\ \E i, j \in 1..Len(variants) : i < j /\ NumGt(CtrOf(variants[j]), CtrOf(variants[i]))

(***************************************************************************)
(* The run state machine (run-state.ts).                                   *)
(***************************************************************************)
RunState == {"draft", "designing", "generating", "ready_for_review", "approved",
             "publishing", "live", "running", "paused", "completed", "archived"}

RunTransitionEvent == {"start_design", "start_generation", "submit_for_review",
                       "approve", "reject", "start_publish", "publish_complete",
                       "start_delivery", "pause", "resume", "complete", "archive",
                       "cancel"}

RoleName == {"tenant_owner", "operator", "reviewer", "viewer"}

\* a StateTransition without requiresApproval and requiresBudget
StateTransition(from, to, event, allowedRoles) ==
  [from |-> from, to |-> to, event |-> event, allowedRoles |-> allowedRoles,
   requiresApproval |-> FALSE, requiresBudget |-> FALSE]

\* a StateTransition with requiresApproval: true and requiresBudget: true
GatedTransition(from, to, event, allowedRoles) ==
  [from |-> from, to |-> to, event |-> event, allowedRoles |-> allowedRoles,
   requiresApproval |-> TRUE, requiresBudget |-> TRUE]

OwnerOperator == <<"tenant_owner", "operator">>
OwnerReviewer == <<"tenant_owner", "reviewer">>

\* the table with a rejection that reopens an approved run
StateTransitionsReopening == <<
  StateTransition("draft", "designing", "start_design", OwnerOperator),
  StateTransition("designing", "generating", "start_generation", OwnerOperator),
  StateTransition("generating", "ready_for_review", "submit_for_review", OwnerOperator),
  StateTransition("ready_for_review", "approved", "approve", OwnerReviewer),
  StateTransition("ready_for_review", "designing", "reject", OwnerReviewer),
  StateTransition("approved", "publishing", "start_publish", OwnerOperator),
  StateTransition("approved", "designing", "reject", OwnerReviewer),
  StateTransition("publishing", "live", "publish_complete", OwnerOperator),
  GatedTransition("live", "running", "start_delivery", OwnerOperator),
  StateTransition("running", "paused", "pause", OwnerOperator),
  GatedTransition("paused", "running", "resume", OwnerOperator),
  StateTransition("running", "completed", "complete", OwnerOperator),
  StateTransition("paused", "completed", "complete", OwnerOperator),
  StateTransition("completed", "archived", "archive", OwnerOperator),
  StateTransition("draft", "archived", "cancel", OwnerOperator),
  StateTransition("designing", "archived", "cancel", OwnerOperator) >>

STATE_TRANSITIONS == <<
  StateTransition("draft", "designing", "start_design", OwnerOperator),
  StateTransition("designing", "generating", "start_generation", OwnerOperator),
  StateTransition("generating", "ready_for_review", "submit_for_review", OwnerOperator),
  StateTransition("ready_for_review", "approved", "approve", OwnerReviewer),
  StateTransition("ready_for_review", "designing", "reject", OwnerReviewer),
  StateTransition("approved", "publishing", "start_publish", OwnerOperator),
  StateTransition("publishing", "live", "publish_complete", OwnerOperator),
  GatedTransition("live", "running", "start_delivery", OwnerOperator),
  StateTransition("running", "paused", "pause", OwnerOperator),
  GatedTransition("paused", "running", "resume", OwnerOperator),
  StateTransition("running", "completed", "complete", OwnerOperator),
  StateTransition("paused", "completed", "complete", OwnerOperator),
  StateTransition("completed", "archived", "archive", OwnerOperator),
  StateTransition("draft", "archived", "cancel", OwnerOperator),
  StateTransition("designing", "archived", "cancel", OwnerOperator) >>

\* Array.prototype.includes
Includes(list, x) == \E i \in DOMAIN list : list[i] = x

\* Array.prototype.filter
RECURSIVE Filter(_, _, _)
Filter(list, keep, i) ==
  IF i > Len(list) THEN <<>>
  ELSE (IF i \in keep THEN <<list[i]>> ELSE <<>>) \o Filter(list, keep, i + 1)

\* STATE_TRANSITIONS.find(t => t.from === currentState && t.event === event)
FindTransition(currentState, event) ==
  IF \E i \in DOMAIN STATE_TRANSITIONS :
       STATE_TRANSITIONS[i].from = currentState /\ STATE_TRANSITIONS[i].event = event
  THEN STATE_TRANSITIONS[CHOOSE i \in DOMAIN STATE_TRANSITIONS :
         /\ STATE_TRANSITIONS[i].from = currentState
         /\ STATE_TRANSITIONS[i].event = event
         /\ \A j \in 1..(i - 1) : ~(/\ STATE_TRANSITIONS[j].from = currentState
                                     /\ STATE_TRANSITIONS[j].event = event)]
  ELSE Null

\* every role passes
RoleAllowedAny(transition, role) == TRUE

\* transition.allowedRoles.includes(role) || role === 'tenant_owner'
RoleAllowed(transition, role) ==
  Includes(transition.allowedRoles, role) \/ role = "tenant_owner"

RoleChecked(transition, role) ==
  IF transition # Null /\ ~RoleAllowed(transition, role) THEN Null ELSE transition

canTransition(currentState, event, role) ==
  RoleChecked(FindTransition(currentState, event), role)

\* the options argument: absent, or an object whose fields are true, false
\* or absent
OptionalBoolean == {"true", "false", "undefined"}
Options == [given : {TRUE}, isApproved : OptionalBoolean, hasBudget : OptionalBoolean]
             \cup {[given |-> FALSE, isApproved |-> "undefined", hasBudget |-> "undefined"]}

\* !options?.isApproved
NotApproved(options) == ~(options.given /\ options.isApproved = "true")

\* !options?.hasBudget
NoBudget(options) == ~(options.given /\ options.hasBudget = "true")

\* the approval check alone
GateFailureApprovalOnly(transition, options) ==
  IF transition.requiresApproval /\ NotApproved(options) THEN "approval" ELSE "none"

\* the approval check, then the budget check
GateFailure(transition, options) ==
  IF transition.requiresApproval /\ NotApproved(options) THEN "approval"
  ELSE IF transition.requiresBudget /\ NoBudget(options) THEN "budget"
  ELSE "none"

\* a thrown StateTransitionError (its to is the target, or from when not given)
StateTransitionError(from, event, reason, to) ==
  [threw |-> TRUE, state |-> "none", from |-> from, event |-> event,
   reason |-> reason, to |-> to]

Returned(state) ==
  [threw |-> FALSE, state |-> state, from |-> "none", event |-> "none",
   reason |-> "none", to |-> "none"]

NoTransitionError(currentState, event) ==
  StateTransitionError(currentState, event,
    IF \E i \in DOMAIN STATE_TRANSITIONS : STATE_TRANSITIONS[i].from = currentState
    THEN "invalid_event" ELSE "no_transitions",
    currentState)

Gated(currentState, event, transition, failure) ==
  IF failure # "none"
  THEN StateTransitionError(currentState, event, failure, transition.to)
  ELSE Returned(transition.to)

Executed(currentState, event, transition, options) ==
  IF transition = Null THEN NoTransitionError(currentState, event)
  ELSE Gated(currentState, event, transition, GateFailure(transition, options))

executeTransition(currentState, event, role, options) ==
  Executed(currentState, event, canTransition(currentState, event, role), options)

\* the filter without the role condition
getAvailableTransitionsAll(currentState, role) ==
  Filter(STATE_TRANSITIONS,
         {i \in DOMAIN STATE_TRANSITIONS : STATE_TRANSITIONS[i].from = currentState}, 1)

getAvailableTransitions(currentState, role) ==
  Filter(STATE_TRANSITIONS,
         {i \in DOMAIN STATE_TRANSITIONS :
            /\ STATE_TRANSITIONS[i].from = currentState
            /\ RoleAllowed(STATE_TRANSITIONS[i], role)}, 1)

isEditable(state) == Includes(<<"draft", "designing">>, state)

isTerminal(state) == state = "completed" \/ state = "archived"

AppliedState(state, result) == IF result.threw THEN state ELSE result.state

InitRun ==
  /\ EngineIdle
  /\ numeric = None /\ stop = None /\ approval = None /\ lp = None
  /\ run = [state |-> "draft", last |-> None, query |-> None]

\* the record of a call: its arguments, what canTransition found, the outcome
Call(from, event, role, options, transition, result) ==
  [from |-> from, event |-> event, role |-> role, options |-> options,
   transition |-> transition, result |-> result]

CallWith(from, event, role, options, transition) ==
  Call(from, event, role, options, transition,
       Executed(from, event, transition, options))

AfterCall(call) ==
  [state |-> AppliedState(call.from, call.result), last |-> call, query |-> None]

\* a caller executes a transition and keeps the returned state; a thrown
\* error leaves the run where it was
ExecuteTransition ==
  /\ run # None
  /\ \E event \in RunTransitionEvent, role \in RoleName, options \in Options :
       run' = AfterCall(CallWith(run.state, event, role, options,
                                 canTransition(run.state, event, role)))
  /\ UNCHANGED <<engineVars, numeric, stop, approval, lp>>

GetAvailableTransitions ==
  /\ run # None
  /\ \E role \in RoleName :
       run' = [state |-> run.state, last |-> None,
               query |-> [state |-> run.state, role |-> role,
                          transitions |-> getAvailableTransitions(run.state, role)]]
  /\ UNCHANGED <<engineVars, numeric, stop, approval, lp>>

NextRun == ExecuteTransition \/ GetAvailableTransitions

SpecRun == InitRun /\ [][NextRun]_vars

(***************************************************************************)
(* Automatic stop (auto-stop.ts).  Amounts are whole yen, times are        *)
(* minutes; an optional number is Null or Number(n).                       *)
(***************************************************************************)
Number(n) == [type |-> "number", value |-> n]

NoStop == [shouldStop |-> FALSE, reason |-> "null", details |-> Null]

StopEvaluation(reason, condition, currentValue, threshold) ==
  [shouldStop |-> TRUE, reason |-> reason,
   details |-> [condition |-> condition, currentValue |-> currentValue,
                threshold |-> threshold]]

checkBudgetTotal(conditions, metrics) ==
  IF ~conditions.budgetTotalEnabled \/ conditions.budgetTotal = Null THEN NoStop
  ELSE IF metrics.totalSpend >= conditions.budgetTotal.value
  THEN StopEvaluation("budget_total", "budget_total", metrics.totalSpend,
                      conditions.budgetTotal.value)
  ELSE NoStop

checkBudgetDaily(conditions, metrics) ==
  IF ~conditions.budgetDailyEnabled \/ conditions.budgetDaily = Null THEN NoStop
  ELSE IF metrics.dailySpend >= conditions.budgetDaily.value
  THEN StopEvaluation("budget_daily", "budget_daily", metrics.dailySpend,
                      conditions.budgetDaily.value)
  ELSE NoStop

checkCpaLimit(conditions, metrics) ==
  IF ~conditions.cpaLimitEnabled \/ conditions.cpaLimit = Null
       \/ conditions.cpaMinSample = Null THEN NoStop
  ELSE IF metrics.conversions < conditions.cpaMinSample.value THEN NoStop
  ELSE IF metrics.cpa = Null THEN NoStop
  ELSE IF metrics.cpa.value > conditions.cpaLimit.value
  THEN StopEvaluation("cpa_limit", "cpa_limit", metrics.cpa.value,
                      conditions.cpaLimit.value)
  ELSE NoStop

MinutesPerHour == 60

\* the branch of checkCvZero for a known last conversion
CvZeroSince(lastConversionAt, cvZeroHours, currentTime) ==
  IF currentTime - lastConversionAt >= cvZeroHours * MinutesPerHour
  THEN StopEvaluation("cv_zero", "cv_zero",
                      (currentTime - lastConversionAt) \div MinutesPerHour, cvZeroHours)
  ELSE NoStop

\* a faulty checkCvZero: without any conversion, the time since the start of
\* delivery (time 0) is checked
checkCvZeroSinceStart(conditions, metrics, currentTime) ==
  IF ~conditions.cvZeroHoursEnabled \/ conditions.cvZeroHours = Null THEN NoStop
  ELSE IF metrics.lastConversionAt # Null
  THEN CvZeroSince(metrics.lastConversionAt.value, conditions.cvZeroHours.value,
                   currentTime)
  ELSE CvZeroSince(0, conditions.cvZeroHours.value, currentTime)

checkCvZero(conditions, metrics, currentTime) ==
  IF ~conditions.cvZeroHoursEnabled \/ conditions.cvZeroHours = Null THEN NoStop
  ELSE IF metrics.conversions > 0 \/ metrics.lastConversionAt # Null
  THEN IF metrics.lastConversionAt # Null
       THEN CvZeroSince(metrics.lastConversionAt.value, conditions.cvZeroHours.value,
                        currentTime)
       ELSE NoStop
  ELSE NoStop

checkErrorConsecutive(conditions, metrics) ==
  IF ~conditions.errorConsecutiveEnabled \/ conditions.errorConsecutiveCount = Null
  THEN NoStop
  ELSE IF metrics.consecutiveErrors >= conditions.errorConsecutiveCount.value
  THEN StopEvaluation("error_consecutive", "error_consecutive",
                      metrics.consecutiveErrors, conditions.errorConsecutiveCount.value)
  ELSE NoStop

\* the checks with the CPA limit ahead of the consecutive errors
ChecksCpaFirst(conditions, metrics, currentTime) ==
  <<checkBudgetTotal(conditions, metrics), checkBudgetDaily(conditions, metrics),
    checkCpaLimit(conditions, metrics), checkErrorConsecutive(conditions, metrics),
    checkCvZero(conditions, metrics, currentTime)>>

\* the checks in the order evaluateStopConditions makes them
ChecksInOrder(conditions, metrics, currentTime) ==
  <<checkBudgetTotal(conditions, metrics), checkBudgetDaily(conditions, metrics),
    checkErrorConsecutive(conditions, metrics), checkCpaLimit(conditions, metrics),
    checkCvZero(conditions, metrics, currentTime)>>

\* the first result that stops is returned
RECURSIVE FirstStop(_, _)
FirstStop(results, i) ==
  IF i > Len(results) THEN NoStop
  ELSE IF results[i].shouldStop THEN results[i]
  ELSE FirstStop(results, i + 1)

evaluateStopConditions(conditions, metrics, currentTime) ==
  FirstStop(ChecksInOrder(conditions, metrics, currentTime), 1)

Threshold == 100
Optional(n) == {Null, Number(n)}

\* the total budget, daily budget and consecutive error settings with their
\* counters: disabled or enabled, limit absent or set, counter below or at it
BudgetCases ==
  [enabled : BOOLEAN, limit : Optional(Threshold), value : {Threshold - 1, Threshold}]

\* the CPA settings with the conversions and CPA of the run
CpaCases ==
  {[enabled |-> TRUE, limit |-> Number(Threshold), minSample |-> Number(2),
    cpa |-> Number(Threshold + 1)],
   [enabled |-> FALSE, limit |-> Number(Threshold), minSample |-> Number(2),
    cpa |-> Number(Threshold + 1)],
   [enabled |-> TRUE, limit |-> Null, minSample |-> Number(2),
    cpa |-> Number(Threshold + 1)],
   [enabled |-> TRUE, limit |-> Number(Threshold), minSample |-> Null,
    cpa |-> Number(Threshold + 1)],
   [enabled |-> TRUE, limit |-> Number(Threshold), minSample |-> Number(4),
    cpa |-> Number(Threshold + 1)],
   [enabled |-> TRUE, limit |-> Number(Threshold), minSample |-> Number(2),
    cpa |-> Null],
   [enabled |-> TRUE, limit |-> Number(Threshold), minSample |-> Number(2),
    cpa |-> Number(Threshold)]}

\* the zero-conversion settings with the conversions and the time of the last
\* conversion, for an evaluation made 24 hours after time 0
CvZeroCases ==
  {[enabled |-> TRUE, hours |-> Number(24), last |-> Number(0), conversions |-> 3],
   [enabled |-> FALSE, hours |-> Number(24), last |-> Number(0), conversions |-> 3],
   [enabled |-> TRUE, hours |-> Null, last |-> Number(0), conversions |-> 3],
   [enabled |-> TRUE, hours |-> Number(24), last |-> Null, conversions |-> 3],
   [enabled |-> TRUE, hours |-> Number(24), last |-> Null, conversions |-> 0],
   [enabled |-> TRUE, hours |-> Number(24), last |-> Number(1), conversions |-> 3]}

StopConditions(total, daily, cpa, cvZero, errors) ==
  [budgetTotalEnabled |-> total.enabled, budgetTotal |-> total.limit,
   budgetDailyEnabled |-> daily.enabled, budgetDaily |-> daily.limit,
   cpaLimitEnabled |-> cpa.enabled, cpaLimit |-> cpa.limit,
   cpaMinSample |-> cpa.minSample,
   cvZeroHoursEnabled |-> cvZero.enabled, cvZeroHours |-> cvZero.hours,
   errorConsecutiveEnabled |-> errors.enabled,
   errorConsecutiveCount |-> errors.limit]

MetricsData(total, daily, cpa, cvZero, errors) ==
  [totalSpend |-> total.value, dailySpend |-> daily.value, conversions |-> cvZero.conversions,
   cpa |-> cpa.cpa, lastConversionAt |-> cvZero.last,
   consecutiveErrors |-> errors.value]

createDefaultStopConditions ==
  [budgetTotalEnabled |-> TRUE, budgetTotal |-> Null,
   budgetDailyEnabled |-> TRUE, budgetDaily |-> Null,
   cpaLimitEnabled |-> FALSE, cpaLimit |-> Null,
   cpaMinSample |-> Number(50),
   cvZeroHoursEnabled |-> TRUE, cvZeroHours |-> Number(24),
   errorConsecutiveEnabled |-> TRUE, errorConsecutiveCount |-> Number(3)]

\* the metrics the default conditions are evaluated on: no spend or a large
\* one, no conversion or several, errors below and at the default count
DefaultCaseMetrics ==
  [totalSpend : {0, Threshold}, dailySpend : {0, Threshold}, conversions : {0, 3},
   cpa : Optional(Threshold + 1), lastConversionAt : {Null, Number(0), Number(1)},
   consecutiveErrors : {2, 3}]

InitStop ==
  /\ EngineIdle
  /\ numeric = None /\ run = None /\ approval = None /\ lp = None
  /\ \/ \E total \in BudgetCases, daily \in BudgetCases, errors \in BudgetCases,
           cpa \in CpaCases, cvZero \in CvZeroCases :
          stop = [conditions |-> StopConditions(total, daily, cpa, cvZero, errors),
                  metrics |-> MetricsData(total, daily, cpa, cvZero, errors),
                  currentTime |-> 24 * MinutesPerHour,
                  evaluation |-> None]
     \/ \E metrics \in DefaultCaseMetrics, days \in 1..3 :
          stop = [conditions |-> createDefaultStopConditions,
                  metrics |-> metrics,
                  currentTime |-> days * 24 * MinutesPerHour,
                  evaluation |-> None]

EvaluateStopConditions ==
  /\ stop # None
  /\ stop.evaluation = None
  /\ stop' = [stop EXCEPT !.evaluation =
                evaluateStopConditions(stop.conditions, stop.metrics, stop.currentTime)]
  /\ UNCHANGED <<engineVars, numeric, run, approval, lp>>

NextStop == EvaluateStopConditions

SpecStop == InitStop /\ [][NextStop]_vars

(***************************************************************************)
(* Approval flow (approval.ts).  A string is a sequence of characters.     *)
(***************************************************************************)
MaxItems == 2
MaxCommentLen == 2

canApprove(role) == Includes(<<"tenant_owner", "reviewer">>, role)

getIncompleteRequiredItems(checklist) ==
  Filter(checklist.items,
         {i \in DOMAIN checklist.items :
            checklist.items[i].required /\ ~checklist.items[i].checked}, 1)

\* a thrown ApprovalError
ApprovalError(reason, details) ==
  [threw |-> TRUE, reason |-> reason, details |-> details, status |-> "none",
   checklist |-> Null, comment |-> Null, reviewedBy |-> "none"]

\* a returned ApprovalResult (its id and reviewedAt come from the clock)
ApprovalResult(request, status, comment, userId) ==
  [threw |-> FALSE, reason |-> "none", details |-> Null, status |-> status,
   checklist |-> request.checklist, comment |-> comment, reviewedBy |-> userId]

\* the ids of the given items
RECURSIVE Ids(_, _)
Ids(items, i) ==
  IF i > Len(items) THEN <<>> ELSE <<items[i].id>> \o Ids(items, i + 1)

\* validateChecklist: the error it throws, or Null
ChecklistError(incomplete) ==
  IF Len(incomplete) > 0
  THEN ApprovalError("CHECKLIST_INCOMPLETE", Ids(incomplete, 1))
  ELSE Null

validateChecklist(checklist) == ChecklistError(getIncompleteRequiredItems(checklist))

\* the value of an expression that may throw: the error, or the value after it
OrElse(error, value) == IF error # Null THEN error ELSE value

RoleError(role) ==
  IF ~canApprove(role) THEN ApprovalError("UNAUTHORIZED_ROLE", role) ELSE Null

\* the checklist validated ahead of the role
approveChecklistFirst(request, role, userId, comment) ==
  OrElse(validateChecklist(request.checklist),
    OrElse(RoleError(role),
      ApprovalResult(request, "approved", comment, userId)))

approve(request, role, userId, comment) ==
  OrElse(RoleError(role),
    OrElse(validateChecklist(request.checklist),
      ApprovalResult(request, "approved", comment, userId)))

Whitespace == {" "}

\* String.prototype.trim
RECURSIVE TrimStart(_)
TrimStart(text) ==
  IF Len(text) > 0 /\ Head(text) \in Whitespace THEN TrimStart(Tail(text)) ELSE text

RECURSIVE TrimEnd(_)
TrimEnd(text) ==
  IF Len(text) > 0 /\ text[Len(text)] \in Whitespace
  THEN TrimEnd(SubSeq(text, 1, Len(text) - 1))
  ELSE text

Trim(text) == TrimEnd(TrimStart(text))

\* !comment || comment.trim().length === 0
CommentError(comment) ==
  IF comment = Null \/ Len(comment.text) = 0 \/ Len(Trim(comment.text)) = 0
  THEN ApprovalError("COMMENT_REQUIRED", Null)
  ELSE Null

reject(request, role, userId, comment) ==
  OrElse(RoleError(role),
    OrElse(CommentError(comment),
      ApprovalResult(request, "rejected", comment, userId)))

\* strings of at most n characters
RECURSIVE Strings(_)
Strings(n) ==
  IF n = 0 THEN {<<>>}
  ELSE Strings(n - 1) \cup
       {Append(t, c) : t \in {u \in Strings(n - 1) : Len(u) = n - 1}, c \in {" ", "x"}}

\* an absent comment, or a string
Comments == {Null} \cup {[type |-> "string", text |-> t] : t \in Strings(MaxCommentLen)}

ItemIds == <<"item_1", "item_2", "item_3">>

\* checklists of n items
Checklists(n) ==
  {[items |-> [i \in 1..n |-> [id |-> ItemIds[i], checked |-> flags[i][1],
                                required |-> flags[i][2]]]] :
     flags \in [1..n -> BOOLEAN \X BOOLEAN]}

ApprovalRequest(checklist) ==
  [runId |-> "run_123", tenantId |-> "tenant_456", targetType |-> "lp",
   targetId |-> "lp_789", checklist |-> checklist]

\* getRequiredApprovalTargets()
getRequiredApprovalTargets ==
  <<"lp", "creative", "measurement", "stop_conditions", "budget", "url">>

\* approvals.find((a) => a.targetType === target): the index of the first
\* result for the target, 0 if none
RECURSIVE FindApproval(_, _, _)
FindApproval(approvals, target, i) ==
  IF i > Len(approvals) THEN 0
  ELSE IF approvals[i].targetType = target THEN i
  ELSE FindApproval(approvals, target, i + 1)

\* the test of the loop body of isFullyApproved for one target
TargetApproved(approvals, found) ==
  found # 0 /\ approvals[found].status = "approved"

isFullyApproved(approvals) ==
  \A k \in DOMAIN getRequiredApprovalTargets :
    TargetApproved(approvals,
                   FindApproval(approvals, getRequiredApprovalTargets[k], 1))

\* approvals.filter((a) => a.status === 'approved').map((a) => a.targetType)
ApprovedTargets(approvals) ==
  Filter([i \in DOMAIN approvals |-> approvals[i].targetType],
         {i \in DOMAIN approvals : approvals[i].status = "approved"}, 1)

\* requiredTargets.filter((t) => !approvedTargets.includes(t))
PendingAmong(requiredTargets, approvedTargets) ==
  Filter(requiredTargets,
         {k \in DOMAIN requiredTargets : ~Includes(approvedTargets, requiredTargets[k])},
         1)

getPendingApprovalTargets(approvals) ==
  PendingAmong(getRequiredApprovalTargets, ApprovedTargets(approvals))

\* the statuses of the results recorded for one target, oldest first
ResultHistories ==
  {<<>>, <<"approved">>, <<"rejected">>, <<"pending">>,
   <<"rejected", "approved">>, <<"approved", "rejected">>}

ResultsFor(target, history) ==
  [i \in DOMAIN history |-> [targetType |-> target, status |-> history[i]]]

\* the results of every target, target by target
RECURSIVE ApprovalsFrom(_, _)
ApprovalsFrom(histories, k) ==
  IF k > Len(getRequiredApprovalTargets) THEN <<>>
  ELSE ResultsFor(getRequiredApprovalTargets[k], histories[k])
         \o ApprovalsFrom(histories, k + 1)

ApprovalLists ==
  {ApprovalsFrom(histories, 1) :
     histories \in [DOMAIN getRequiredApprovalTargets -> ResultHistories]}

Returns(value) == [returned |-> value]

InitApproval ==
  /\ EngineIdle
  /\ numeric = None /\ run = None /\ stop = None /\ lp = None
  /\ \/ \E n \in 0..MaxItems, call \in {"approve", "reject"}, role \in RoleName,
           comment \in Comments :
          \E checklist \in Checklists(n) :
            approval = [call |-> call, request |-> ApprovalRequest(checklist),
                        role |-> role, userId |-> "user_1", comment |-> comment,
                        result |-> None]
     \/ \E approvals \in ApprovalLists :
          approval = [call |-> "approvals", approvals |-> approvals,
                      fullyApproved |-> None, pendingTargets |-> None]

Approve ==
  /\ approval # None
  /\ approval.call = "approve" /\ approval.result = None
  /\ approval' = [approval EXCEPT !.result =
       approve(approval.request, approval.role, approval.userId, approval.comment)]
  /\ UNCHANGED <<engineVars, numeric, run, stop, lp>>

Reject ==
  /\ approval # None
  /\ approval.call = "reject" /\ approval.result = None
  /\ approval' = [approval EXCEPT !.result =
       reject(approval.request, approval.role, approval.userId, approval.comment)]
  /\ UNCHANGED <<engineVars, numeric, run, stop, lp>>

IsFullyApproved ==
  /\ approval # None
  /\ approval.call = "approvals" /\ approval.fullyApproved = None
  /\ approval' = [approval EXCEPT !.fullyApproved =
       Returns(isFullyApproved(approval.approvals))]
  /\ UNCHANGED <<engineVars, numeric, run, stop, lp>>

GetPendingApprovalTargets ==
  /\ approval # None
  /\ approval.call = "approvals" /\ approval.pendingTargets = None
  /\ approval' = [approval EXCEPT !.pendingTargets =
       Returns(getPendingApprovalTargets(approval.approvals))]
  /\ UNCHANGED <<engineVars, numeric, run, stop, lp>>

NextApproval == Approve \/ Reject \/ IsFullyApproved \/ GetPendingApprovalTargets

SpecApproval == InitApproval /\ [][NextApproval]_vars

(***************************************************************************)
(* LP variants: canTransitionStatus, updateStatus, createNewVersion.       *)
(***************************************************************************)
VariantStatus == {"draft", "submitted", "approved", "published"}

\* the table with published also reachable from submitted
StatusTransitionsDirect(current) ==
  CASE current = "draft" -> <<"submitted">>
    [] current = "submitted" -> <<"approved", "draft", "published">>
    [] current = "approved" -> <<"published", "draft">>
    [] current = "published" -> <<"draft">>

\* transitions[current]
StatusTransitions(current) ==
  CASE current = "draft" -> <<"submitted">>
    [] current = "submitted" -> <<"approved", "draft">>
    [] current = "approved" -> <<"published", "draft">>
    [] current = "published" -> <<"draft">>

canTransitionStatus(current, target) == Includes(StatusTransitions(current), target)

\* the variant returned by updateStatus, with the call that made it; a throw
\* returns no variant and the caller keeps the one it had
updateStatus(variant, newStatus) ==
  IF ~canTransitionStatus(variant.status, newStatus)
  THEN [variant EXCEPT !.last = [call |-> "updateStatus", target |-> newStatus,
                                 threw |-> TRUE]]
  ELSE [variant EXCEPT !.status = newStatus,
                       !.published = (newStatus = "published") \/ variant.published,
                       !.last = [call |-> "updateStatus", target |-> newStatus,
                                 threw |-> FALSE]]

createNewVersion(variant) ==
  [variant EXCEPT !.version = variant.version + 1,
                  !.status = "draft",
                  !.last = [call |-> "createNewVersion", target |-> "draft",
                            threw |-> FALSE]]

MaxVersion == 5

\* createLPVariant: version 1, status draft, never published
InitLp ==
  /\ EngineIdle
  /\ numeric = None /\ run = None /\ stop = None /\ approval = None
  /\ lp = [status |-> "draft", version |-> 1, published |-> FALSE, last |-> None]

UpdateStatus ==
  /\ lp # None
  /\ \E newStatus \in VariantStatus : lp' = updateStatus(lp, newStatus)
  /\ UNCHANGED <<engineVars, numeric, run, stop, approval>>

CreateNewVersion ==
  /\ lp # None
  /\ lp.version < MaxVersion
  /\ lp' = createNewVersion(lp)
  /\ UNCHANGED <<engineVars, numeric, run, stop, approval>>

NextLp == UpdateStatus \/ CreateNewVersion

SpecLp == InitLp /\ [][NextLp]_vars

PlannerDone == numeric.call = "calculateRequiredSampleSize" /\ numeric.done

\* C13 as stated: for every baseline and 0 < mde1 <= mde2 the sample size for
\* mde2 is at most the sample size for mde1.
CexC13 ==
  PlannerDone /\ 0 < numeric.mde1 /\ numeric.mde1 <= numeric.mde2 =>
    ~NumGt(numeric.result2, numeric.result1)

\* C13, amended: for a baseline rate >= 0 with baselineRate + mde2 <= 100 (both
\* rates are percentages) and 0 < mde1 <= mde2, the sample size for mde2 is at
\* most the sample size for mde1, and both are finite and not negative.
ThmC13 ==
  PlannerDone /\ 0 < numeric.mde1 /\ numeric.mde1 <= numeric.mde2
    /\ numeric.baselineRate >= 0 /\ numeric.baselineRate + numeric.mde2 <= 100 =>
    /\ numeric.result1.k = "fin" /\ numeric.result2.k = "fin"
    /\ ~NumLt(numeric.result2, Zero)
    /\ ~NumGt(numeric.result2, numeric.result1)

WitC13 ==
  /\ PlannerDone
  /\ 0 < numeric.mde1 /\ numeric.mde1 < numeric.mde2
  /\ numeric.baselineRate + numeric.mde2 <= 100
  /\ NumLt(numeric.result2, numeric.result1)
  /\ NumGt(numeric.result2, Zero)

PValueDone == numeric.call = "calculatePValue" /\ numeric.done

\* C14: the p-value at z = 1.96 is within 0.01 of 0.05, and the p-value at
\* z = 0 is within 0.05 of 1 (one decimal place).
ThmC14 ==
  PValueDone =>
    /\ numeric.zScore = CriticalZ => Abs(numeric.result - S \div 20) <= S \div 100
    /\ numeric.zScore = 0 => Abs(numeric.result - S) < S \div 20

WitC14 ==
  /\ PValueDone
  /\ numeric.zScore = CriticalZ
  /\ numeric.result # NaN
  /\ Abs(numeric.result - S \div 20) <= S \div 100
Executed_ == run # None /\ run.last # None
Queried == run # None /\ run.query # None

RunningPairs == {<<"live", "start_delivery">>, <<"paused", "resume">>}

Asserted(options) ==
  options.given /\ options.isApproved = "true" /\ options.hasBudget = "true"

\* C15: executeTransition returns running only for (live, start_delivery) and
\* (paused, resume) and only with isApproved and hasBudget both true; with
\* either missing or false it throws and the run stays where it was; a run
\* that has just entered running did so by a call that asserted both.
ThmC15 ==
  Executed_ =>
    /\ ~run.last.result.threw /\ run.last.result.state = "running" =>
         <<run.last.from, run.last.event>> \in RunningPairs /\ Asserted(run.last.options)
    /\ <<run.last.from, run.last.event>> \in RunningPairs /\ ~Asserted(run.last.options) =>
         run.last.result.threw /\ run.last.result.state = "none"
           /\ run.state = run.last.from
    /\ run.state = "running" /\ run.last.from # "running" =>
         ~run.last.result.threw /\ Asserted(run.last.options)

WitC15 ==
  /\ Executed_
  /\ run.state = "running"
  /\ run.last.from = "paused" /\ run.last.event = "resume"
  /\ run.last.role = "operator"
  /\ Asserted(run.last.options)
  /\ ~run.last.result.threw

\* the entries of the table for (state, event) that the role may use
EntriesFor(currentState, event, role) ==
  {i \in DOMAIN STATE_TRANSITIONS :
     /\ STATE_TRANSITIONS[i].from = currentState
     /\ STATE_TRANSITIONS[i].event = event
     /\ (role = "tenant_owner" \/ Includes(STATE_TRANSITIONS[i].allowedRoles, role))}

\* C16: canTransition returns a transition exactly when the table has an
\* entry for (state, event) and the role is tenant_owner or listed in its
\* allowedRoles, and then it returns that entry; viewer gets no transition,
\* operator gets none for approve and reject in ready_for_review.
ThmC16 ==
  Executed_ =>
    /\ run.last.transition # Null <=>
         EntriesFor(run.last.from, run.last.event, run.last.role) # {}
    /\ run.last.transition # Null =>
         \E i \in EntriesFor(run.last.from, run.last.event, run.last.role) :
           run.last.transition = STATE_TRANSITIONS[i]
    /\ run.last.role = "viewer" => run.last.transition = Null /\ run.last.result.threw
    /\ run.last.role = "operator" /\ run.last.from = "ready_for_review"
         /\ run.last.event \in {"approve", "reject"} =>
           run.last.transition = Null /\ run.last.result.threw

WitC16 ==
  /\ Executed_
  /\ run.last.from = "ready_for_review"
  /\ run.last.event = "approve"
  /\ run.last.role = "operator"
  /\ run.last.transition = Null
  /\ run.state = "ready_for_review"

\* C17 as stated: from completed and from archived no role has an available
\* transition and every event throws.
CexC17 ==
  /\ Queried /\ isTerminal(run.query.state) => run.query.transitions = <<>>
  /\ Executed_ /\ isTerminal(run.last.from) => run.last.result.threw

MayArchive(role) == role \in {"tenant_owner", "operator"}

\* C17, amended: archived has no way out (no available transition for any
\* role, every event throws); completed has exactly one, archive, for
\* tenant_owner and operator, which leads to archived; everything else from
\* completed throws.
ThmC17 ==
  /\ Queried /\ run.query.state = "archived" => run.query.transitions = <<>>
  /\ Queried /\ run.query.state = "completed" =>
       run.query.transitions =
         IF MayArchive(run.query.role)
         THEN <<StateTransition("completed", "archived", "archive", OwnerOperator)>>
         ELSE <<>>
  /\ Executed_ /\ run.last.from = "archived" =>
       run.last.result.threw /\ run.last.result.reason = "no_transitions"
         /\ run.state = "archived"
  /\ Executed_ /\ run.last.from = "completed" =>
       IF run.last.event = "archive" /\ MayArchive(run.last.role)
       THEN ~run.last.result.threw /\ run.last.result.state = "archived"
       ELSE run.last.result.threw /\ run.state = "completed"

WitC17 ==
  /\ Executed_
  /\ run.state = "archived"
  /\ run.last.from = "archived" /\ run.last.event = "archive"
  /\ run.last.role = "tenant_owner"
  /\ run.last.result.threw
Evaluated == stop # None /\ stop.evaluation # None

TotalCheck == checkBudgetTotal(stop.conditions, stop.metrics)
DailyCheck == checkBudgetDaily(stop.conditions, stop.metrics)
ErrorCheck == checkErrorConsecutive(stop.conditions, stop.metrics)
CpaCheck == checkCpaLimit(stop.conditions, stop.metrics)
CvZeroCheck == checkCvZero(stop.conditions, stop.metrics, stop.currentTime)

\* C18: evaluateStopConditions stops exactly when one of the five checks
\* stops for the same conditions, metrics and time; it then returns the
\* result of the first stopping check in the order budget_total,
\* budget_daily, error_consecutive, cpa_limit, cv_zero; otherwise reason and
\* details are null.
ThmC18 ==
  Evaluated =>
    /\ stop.evaluation.shouldStop <=>
         \/ TotalCheck.shouldStop \/ DailyCheck.shouldStop \/ ErrorCheck.shouldStop
         \/ CpaCheck.shouldStop \/ CvZeroCheck.shouldStop
    /\ stop.evaluation =
         IF TotalCheck.shouldStop THEN TotalCheck
         ELSE IF DailyCheck.shouldStop THEN DailyCheck
         ELSE IF ErrorCheck.shouldStop THEN ErrorCheck
         ELSE IF CpaCheck.shouldStop THEN CpaCheck
         ELSE IF CvZeroCheck.shouldStop THEN CvZeroCheck
         ELSE NoStop
    /\ stop.evaluation.shouldStop =>
         stop.evaluation.reason =
           IF TotalCheck.shouldStop THEN "budget_total"
           ELSE IF DailyCheck.shouldStop THEN "budget_daily"
           ELSE IF ErrorCheck.shouldStop THEN "error_consecutive"
           ELSE IF CpaCheck.shouldStop THEN "cpa_limit"
           ELSE "cv_zero"
    /\ ~stop.evaluation.shouldStop =>
         stop.evaluation.reason = "null" /\ stop.evaluation.details = Null

WitC18 ==
  /\ Evaluated
  /\ ~TotalCheck.shouldStop /\ ~DailyCheck.shouldStop
  /\ ErrorCheck.shouldStop /\ CpaCheck.shouldStop /\ CvZeroCheck.shouldStop
  /\ stop.evaluation.shouldStop
  /\ stop.evaluation.reason = "error_consecutive"
Reviewed ==
  /\ approval # None
  /\ approval.call \in {"approve", "reject"}
  /\ approval.result # None

Authorized == approval.role \in {"tenant_owner", "reviewer"}

RequiredChecked ==
  \A i \in DOMAIN approval.request.checklist.items :
    approval.request.checklist.items[i].required =>
      approval.request.checklist.items[i].checked

Commented ==
  /\ approval.comment # Null
  /\ \E i \in DOMAIN approval.comment.text : approval.comment.text[i] # " "

\* C19: approve returns status approved exactly when the role is
\* tenant_owner or reviewer and every required item is checked; otherwise it
\* throws UNAUTHORIZED_ROLE for any other role, else CHECKLIST_INCOMPLETE.
\* reject returns status rejected exactly when the role is one of the two and
\* the comment has a character that is not white space, whatever the
\* checklist; otherwise it throws UNAUTHORIZED_ROLE for any other role, else
\* COMMENT_REQUIRED.
ThmC19 ==
  Reviewed =>
    /\ approval.call = "approve" =>
         /\ ~approval.result.threw <=> Authorized /\ RequiredChecked
         /\ ~approval.result.threw => approval.result.status = "approved"
         /\ approval.result.threw =>
              approval.result.reason =
                IF ~Authorized THEN "UNAUTHORIZED_ROLE" ELSE "CHECKLIST_INCOMPLETE"
    /\ approval.call = "reject" =>
         /\ ~approval.result.threw <=> Authorized /\ Commented
         /\ ~approval.result.threw => approval.result.status = "rejected"
         /\ approval.result.threw =>
              approval.result.reason =
                IF ~Authorized THEN "UNAUTHORIZED_ROLE" ELSE "COMMENT_REQUIRED"

WitC19 ==
  /\ Reviewed
  /\ approval.call = "approve"
  /\ approval.role = "operator"
  /\ ~RequiredChecked
  /\ approval.result.threw
  /\ approval.result.reason = "UNAUTHORIZED_ROLE"
\* C20 as stated: every decision with status winner returned by
\* determineWinner has a finite improvement greater than 0.
CexC20 ==
  pc = "decided" /\ winner.status = "winner" =>
    winner.improvement.k = "fin" /\ NumGt(winner.improvement, Zero)
SignificanceDone == numeric.call = "testSignificance" /\ numeric.done

\* the decision for the pair of the call, at its first confidence level
PairDecision ==
  determineWinner(<<numeric.control, numeric.treatment>>, numeric.metric,
                  numeric.confidenceLevel1, DefaultMinSampleSize)

\* C21 as stated: with a pooled standard error of 0, zScore is 0 and the
\* result is not significant at any confidence level in [0, 1], and
\* determineWinner declares neither winner nor loser for the pair.
CexC21 ==
  SignificanceDone /\ numeric.result1.standardError = 0 =>
    /\ numeric.result1.zScore = 0
    /\ ~numeric.result1.isSignificant
    /\ PairDecision.status \notin {"winner", "loser"}

\* C21, amended: with a pooled standard error of 0, zScore is 0 and pValue
\* is the approximation's value at 0 (0.9999997, not 1); the result is not
\* significant, and determineWinner declares neither winner nor loser, for
\* every confidence level from 0.000001 to 1; at confidence level 0 and
\* 0.0000001 the result is significant.
ThmC21 ==
  SignificanceDone /\ numeric.result1.standardError = 0 =>
    /\ numeric.result1.zScore = 0
    /\ numeric.result1.pValue = calculatePValue(0)
    /\ numeric.confidenceLevel1 >= 10 =>
         /\ ~numeric.result1.isSignificant
         /\ PairDecision.status \notin {"winner", "loser"}
    /\ numeric.confidenceLevel1 <= 1 => numeric.result1.isSignificant

\* control cvr 0% against treatment cvr 100%
WitC21 ==
  /\ SignificanceDone
  /\ numeric.metric = "cvr"
  /\ numeric.control.clicks = 3 /\ numeric.control.conversions = 0
  /\ numeric.treatment.clicks = 3 /\ numeric.treatment.conversions = 3
  /\ numeric.control.sampleSize = 50 /\ numeric.treatment.sampleSize = 50
  /\ numeric.confidenceLevel1 = DefaultConfidenceLevel
  /\ numeric.result1.standardError = 0
  /\ ~numeric.result1.isSignificant
  /\ PairDecision.status = "tie"
\* 1.96 * pooledSE * 100
MdeAt95(pooledSE) == IF pooledSE = NaN THEN NaN ELSE MulFP(CriticalZ, pooledSE) * 100

\* C22: for the same control, treatment and metric, two confidence levels
\* give the same pValue, zScore, standardError and minimumDetectableEffect
\* (1.96 * pooledSE * 100); only isSignificant and the echoed level differ,
\* and a result significant at a level is significant at every lower level.
ThmC22 ==
  SignificanceDone =>
    /\ numeric.result1.pValue = numeric.result2.pValue
    /\ numeric.result1.zScore = numeric.result2.zScore
    /\ numeric.result1.standardError = numeric.result2.standardError
    /\ numeric.result1.minimumDetectableEffect = numeric.result2.minimumDetectableEffect
    /\ numeric.result1.minimumDetectableEffect = MdeAt95(numeric.result1.standardError)
    /\ numeric.result1.confidenceLevel = numeric.confidenceLevel1
    /\ numeric.result2.confidenceLevel = numeric.confidenceLevel2
    /\ numeric.confidenceLevel2 < numeric.confidenceLevel1
         /\ numeric.result1.isSignificant => numeric.result2.isSignificant

WitC22 ==
  /\ SignificanceDone
  /\ numeric.confidenceLevel1 = HighConfidenceLevel
  /\ numeric.confidenceLevel2 = DefaultConfidenceLevel
  /\ ~numeric.result1.isSignificant /\ numeric.result2.isSignificant
  /\ numeric.result1.pValue = numeric.result2.pValue
  /\ numeric.result1.standardError > 0
Created == pc = "created" /\ ~testResult.threw

\* the variants with a finite CPA, and the CPA learnings returned
FiniteCpa == {i \in DOMAIN variants : CpaOf(variants[i]).k = "fin"}
CpaLearnings == {j \in DOMAIN testResult.learnings : testResult.learnings[j].kind = "cpa"}

\* (worse - better) / better * 100 > 30 for CPAs that are not negative
SpreadExceeds(better, worse) ==
  NumGt(NumScale(NumSub(worse, better), 100), NumScale(better, 30))

\* C23: the CPA learning is emitted exactly when some variant has a finite
\* CPA and the spread between the highest and the lowest finite CPA exceeds
\* 30% of the lowest; at most one is emitted; its best variant has the
\* lowest finite CPA and its worst the highest finite CPA, so a variant of
\* infinite CPA is never named, and with no finite CPA none is emitted.
ThmC23 ==
  Created =>
    /\ CpaLearnings # {} <=>
         \E i \in FiniteCpa, j \in FiniteCpa :
           SpreadExceeds(CpaOf(variants[i]), CpaOf(variants[j]))
    /\ Cardinality(CpaLearnings) <= 1
    /\ \A l \in CpaLearnings :
         /\ \E i \in FiniteCpa :
              /\ variants[i].variantId = testResult.learnings[l].best
              /\ \A j \in FiniteCpa : ~NumLt(CpaOf(variants[j]), CpaOf(variants[i]))
         /\ \E i \in FiniteCpa :
              /\ variants[i].variantId = testResult.learnings[l].worst
              /\ \A j \in FiniteCpa : ~NumGt(CpaOf(variants[j]), CpaOf(variants[i]))
    /\ FiniteCpa = {} => CpaLearnings = {}

WitC23 ==
  /\ Created
  /\ CpaLearnings # {}
  /\ FiniteCpa # DOMAIN variants
  /\ Cardinality(FiniteCpa) >= 2
\* another value of the metrics field
OtherMetrics ==
  [cvr |-> Fin(1, 1), ctr |-> Fin(2, 1), cpa |-> Fin(3, 1), roas |-> Fin(4, 1),
   cpc |-> Fin(5, 1), cpm |-> Fin(6, 1)]

\* the input with other metrics fields: another value in the first variant
MixedMetrics ==
  [i \in DOMAIN variants |->
     [variants[i] EXCEPT !.metrics = IF i = 1 THEN OtherMetrics ELSE StaleMetrics]]

\* lists that differ from the input only in the metrics fields
MetricsAlternatives ==
  {MixedMetrics, [i \in DOMAIN variants |-> [variants[i] EXCEPT !.metrics = OtherMetrics]]}

\* C24: lists that differ only in their metrics fields get the same decision
\* from determineWinner and the same result (learnings and enriched variants
\* included) from createTestResult, and the metrics of the enriched variants
\* are calculateVariantMetrics of the raw counters.
ThmC24 ==
  /\ pc = "decided" =>
       \A alt \in MetricsAlternatives :
         determineWinner(alt, primaryMetric, confidenceLevel, minSampleSize) = winner
  /\ Created =>
       /\ createTestResult(MixedMetrics, primaryMetric) = testResult
       /\ \A i \in DOMAIN variants :
            testResult.variants[i].metrics = calculateVariantMetrics(variants[i])

WitC24 ==
  /\ pc = "decided"
  /\ winner.status = "winner"
  /\ \A i \in DOMAIN variants :
       /\ variants[i].metrics = StaleMetrics
       /\ calculateVariantMetrics(variants[i]) # StaleMetrics
StatusTable ==
  {<<"draft", "submitted">>, <<"submitted", "approved">>, <<"submitted", "draft">>,
   <<"approved", "published">>, <<"approved", "draft">>, <<"published", "draft">>}

\* what a step on an LP variant may do
LpStep ==
  /\ lp'.status = "published" /\ (lp.status # "published" \/ ~lp'.last.threw) =>
       lp.status = "approved" /\ lp'.last.call = "updateStatus"
  /\ lp'.status = "approved" /\ (lp.status # "approved" \/ ~lp'.last.threw) =>
       lp.status = "submitted" /\ lp'.last.call = "updateStatus"
  /\ lp'.last.call = "updateStatus" =>
       /\ lp'.last.threw <=> <<lp.status, lp'.last.target>> \notin StatusTable
       /\ lp'.last.threw =>
            lp'.status = lp.status /\ lp'.version = lp.version
              /\ lp'.published = lp.published
       /\ ~lp'.last.threw => lp'.status = lp'.last.target /\ lp'.version = lp.version
  /\ lp'.last.call = "createNewVersion" =>
       lp'.status = "draft" /\ lp'.version = lp.version + 1

\* C25: in every sequence of updateStatus and createNewVersion calls from a
\* draft, the status becomes published only from approved and approved only
\* from submitted; updateStatus throws and changes nothing exactly for the
\* pairs outside the table; createNewVersion resets the status to draft and
\* adds 1 to the version.
ThmC25 == [][lp # None => LpStep]_vars

WitC25 ==
  /\ lp # None
  /\ lp.status = "published"
  /\ lp.version = 2
  /\ lp.last # None
  /\ lp.last.call = "updateStatus" /\ ~lp.last.threw
\* the pair of the call with the roles exchanged: the treatment as control
SwapRole(v) == [v EXCEPT !.isControl = ~v.isControl]
SwappedControl == SwapRole(numeric.treatment)
SwappedTreatment == SwapRole(numeric.control)

SwappedDecision ==
  determineWinner(<<SwappedControl, SwappedTreatment>>, numeric.metric,
                  numeric.confidenceLevel1, DefaultMinSampleSize)

SwappedSignificance ==
  testSignificance(SwappedControl, SwappedTreatment, numeric.metric,
                   numeric.confidenceLevel1)

Negated(z) == IF z = NaN THEN NaN ELSE 0 - z

\* C26 as stated: for variants A and B whose guards pass, determineWinner
\* with A as control and B as treatment returns winner (B) if and only if
\* determineWinner with B as control and A as treatment returns loser (B);
\* pValue, standardError and isSignificant are equal in both orientations
\* and zScore only changes sign.
CexC26 ==
  SignificanceDone /\ PairDecision.status # "insufficient_data" =>
    /\ (PairDecision.status = "winner"
          /\ PairDecision.winnerVariantId = numeric.treatment.variantId)
         <=> (SwappedDecision.status = "loser"
                /\ SwappedDecision.winnerVariantId = numeric.treatment.variantId)
    /\ SwappedSignificance.pValue = numeric.result1.pValue
    /\ SwappedSignificance.standardError = numeric.result1.standardError
    /\ SwappedSignificance.isSignificant = numeric.result1.isSignificant
    /\ SwappedSignificance.zScore = Negated(numeric.result1.zScore)

\* the lists that hold the treatments of vs in another order, with every
\* control where it is
Reordered(vs, p) == [i \in 1..Len(vs) |-> vs[p[i]]]

TreatmentOrders(vs) ==
  {p \in Permutations(1..Len(vs)) : \A i \in 1..Len(vs) : vs[i].isControl => p[i] = i}

Reorderings(vs) == {Reordered(vs, p) : p \in TreatmentOrders(vs)}

\* the same status, and for winner decisions the same improvement
SameOutcome(decision, other) ==
  /\ other.status = decision.status
  /\ decision.status = "winner" => other.improvement = decision.improvement

\* the qualifying treatments of maximum improvement, and the earliest of them
BestQualifiers ==
  {i \in Qualifiers : \A j \in Qualifiers : ~NumGt(ImprovementOf(j), ImprovementOf(i))}

EarliestBest == CHOOSE i \in BestQualifiers : \A j \in BestQualifiers : i <= j

\* C27: the status returned by determineWinner, and for winner decisions
\* the improvement, are the same for every order of the treatments with
\* the same control; among several qualifying treatments of maximum
\* improvement the earliest in list order is the winnerVariantId.
ThmC27 ==
  pc = "decided" /\ GuardsPass =>
    /\ \A ws \in Reorderings(variants) :
         SameOutcome(winner, determineWinner(ws, primaryMetric, confidenceLevel,
                                             minSampleSize))
    /\ winner.status = "winner" =>
         winner.winnerVariantId = variants[EarliestBest].variantId

\* two treatments share the maximum improvement: the earlier one is named,
\* and the other one is named when the list is given in another order
WitC27 ==
  /\ pc = "decided" /\ GuardsPass
  /\ winner.status = "winner"
  /\ Cardinality(BestQualifiers) >= 2
  /\ winner.winnerVariantId = variants[EarliestBest].variantId
  /\ \E ws \in Reorderings(variants) :
       determineWinner(ws, primaryMetric, confidenceLevel, minSampleSize).winnerVariantId
         # winner.winnerVariantId

\* both functions have been called on the list of results
ApprovalsChecked ==
  /\ approval # None
  /\ approval.call = "approvals"
  /\ approval.fullyApproved # None /\ approval.pendingTargets # None

\* C28 as stated: for every list of approval results, isFullyApproved is
\* true if and only if getPendingApprovalTargets is empty, also when the
\* list holds several results of different statuses for one target type.
CexC28 ==
  ApprovalsChecked =>
    (approval.fullyApproved.returned <=> approval.pendingTargets.returned = <<>>)

\* the states a successful executeTransition call of some role, with some
\* options, returns from a state
SuccessorsOf(state) ==
  {AppliedState(state, executeTransition(state, event, role, options)) :
     event \in RunTransitionEvent, role \in RoleName, options \in Options} \ {state}

SuccessorTable == [state \in RunState |-> SuccessorsOf(state)] @@ <<>>

\* the states reached from a set of states by any number of successful calls
Grown(states) == states \cup UNION {SuccessorTable[state] : state \in states}

RECURSIVE ReachableFrom(_)
ReachableFrom(states) ==
  IF Grown(states) \subseteq states THEN states ELSE ReachableFrom(Grown(states))

ReachableTable == [state \in RunState |-> ReachableFrom({state})] @@ <<>>

RunAt(state) == run # None /\ run.state = state

NotEditable == run # None => ~isEditable(run.state)

ArchivedReachable == run # None => "archived" \in ReachableTable[run.state]

\* the states an approved run can be in: approved and whatever successful
\* calls reach from it
AfterApproval == ReachableTable["approved"]

RunIn(states) == run # None /\ run.state \in states

\* C29: starting from draft, under successful executeTransition calls of any
\* roles, once the run has reached approved it is never again in an editable
\* state (draft or designing): no step leaves the states of an approved run
\* and none of them is editable; and in every state reached archived can
\* still be reached by further successful calls.
ThmC29 ==
  /\ [][RunIn(AfterApproval) => RunIn(AfterApproval)']_vars
  /\ [](RunIn(AfterApproval) => NotEditable)
  /\ []("approved" \in AfterApproval)
  /\ []ArchivedReachable

\* the run went through approved and delivery and has been archived from
\* completed
WitC29 ==
  /\ RunAt("archived")
  /\ run.last # None
  /\ run.last.from = "completed" /\ ~run.last.result.threw
  /\ ~isEditable(run.state)
  /\ ReachableTable["approved"] =
       {"approved", "publishing", "live", "running", "paused", "completed", "archived"}

\* a check that is enabled without a threshold
Unset(enabled, threshold) == enabled /\ threshold = Null

====
